---- MODULE Spec2Model ----
(***************************************************************************)
(* docsearch: decoding of a rustdoc search index into a mapping from item  *)
(* paths to documentation URLs (src/src/index/mod.rs, index/v1.rs,         *)
(* index/v2.rs).                                                           *)
(*                                                                         *)
(* Texts are TLA+ strings, read character by character with SubSeq.  The   *)
(* alphabet is ASCII, so a byte and a char are the same thing.             *)
(***************************************************************************)
EXTENDS Integers, Sequences, FiniteSets, TLC

VARIABLES index, pc, version, content, raw, data, result,
          query, simple_path, search, found, link

vars == <<index, pc, version, content, raw, data, result, query, simple_path, search, found, link>>

\* The state of a search (lib.rs): the query text, the SimplePath parsed from
\* it, the SearchPage / SearchIndex, the Index and the link found in it.
searchVars == <<query, simple_path, search, found, link>>

\* let x = v in e(x), written The({ e(x) : x \in {v} }): the value v is
\* computed once, then named.
The(S) == CHOOSE x \in S : TRUE

(***************************************************************************)
(* str helpers (Rust's core::str, as the source calls them)                *)
(***************************************************************************)

\* The i-th character of s (1-based), "" outside of s.
Ch(s, i) == IF i >= 1 /\ i <= Len(s) THEN SubSeq(s, i, i) ELSE ""

\* s without its first k characters.
Drop(s, k) == IF k >= Len(s) THEN "" ELSE SubSeq(s, k + 1, Len(s))

starts_with(s, p) == Len(p) <= Len(s) /\ SubSeq(s, 1, Len(p)) = p

ends_with(s, p) == Len(p) <= Len(s) /\ SubSeq(s, Len(s) - Len(p) + 1, Len(s)) = p

\* char::is_whitespace, restricted to ASCII.
Whitespace == {" ", "\t", "\n", "\r", "\f"}

\* str::trim_end: s up to its last character that is no whitespace.
trim_end(s) ==
    LET keep == {i \in 1..Len(s) : Ch(s, i) \notin Whitespace}
    IN IF keep = {} THEN ""
       ELSE SubSeq(s, 1, CHOOSE i \in keep : \A j \in keep : j <= i)

\* Option<&str>: [some |-> FALSE] or [some |-> TRUE, v |-> rest].
None == [some |-> FALSE]
Some(x) == [some |-> TRUE, v |-> x]

strip_prefix(s, p) == IF starts_with(s, p) THEN Some(Drop(s, Len(p))) ELSE None

strip_suffix(s, p) ==
    IF ends_with(s, p) THEN Some(SubSeq(s, 1, Len(s) - Len(p))) ELSE None

\* str::find: the position (1-based) of the first match of p in s, 0 for none.
find(s, p) ==
    LET at == {i \in 1..(Len(s) - Len(p) + 1) : SubSeq(s, i, i + Len(p) - 1) = p}
    IN IF at = {} THEN 0 ELSE CHOOSE i \in at : \A j \in at : i <= j

\* str::replace: every non-overlapping match, left to right.
RECURSIVE replace(_, _, _)
replace(s, from, to) ==
    The({ IF i = 0 THEN s
          ELSE SubSeq(s, 1, i - 1) \o to \o replace(Drop(s, i + Len(from) - 1), from, to)
        : i \in {find(s, from)} })

\* str::lines: split at "\n", a "\r" before it removed too; no line for the
\* empty rest after the final line ending.
RECURSIVE lines(_)
lines(s) ==
    IF s = "" THEN <<>>
    ELSE The({ IF i = 0 THEN <<s>>
               ELSE <<(IF i > 1 /\ Ch(s, i - 1) = "\r" THEN SubSeq(s, 1, i - 2)
                       ELSE SubSeq(s, 1, i - 1))>>
                    \o lines(Drop(s, i))
             : i \in {find(s, "\n")} })

(***************************************************************************)
(* Version::detect                                                         *)
(***************************************************************************)

V1Prologue == "var N=null,E=\"\",T=\"t\",U=\"u\",searchIndex={};"
V2Trailer == "addSearchOptions(searchIndex);initSearch(searchIndex);"
V3TrailerWindow == "if (window.initSearch) {window.initSearch(searchIndex)};"
V3TrailerExports ==
    "if (typeof exports !== 'undefined') {exports.searchIndex = searchIndex};"

\* detect without the module-export form of the epoch-3 trailer.
detect_window_only(text) ==
    IF starts_with(text, V1Prologue) THEN "V1"
    ELSE IF ends_with(text, V2Trailer) THEN "V2"
    ELSE IF ends_with(text, V3TrailerWindow) THEN "V3"
    ELSE "None"

\* detect with every trailer looked for before the trailing whitespace.
detect_trimmed(text) ==
    IF starts_with(text, V1Prologue) THEN "V1"
    ELSE IF ends_with(trim_end(text), V2Trailer) THEN "V2"
    ELSE IF \/ ends_with(trim_end(text), V3TrailerWindow)
            \/ ends_with(trim_end(text), V3TrailerExports)
         THEN "V3"
         ELSE "None"

detect(text) ==
    IF starts_with(text, V1Prologue) THEN "V1"
    ELSE IF ends_with(text, V2Trailer) THEN "V2"
    ELSE IF \/ ends_with(text, V3TrailerWindow)
            \/ ends_with(trim_end(text), V3TrailerExports)
         THEN "V3"
         ELSE "None"

(***************************************************************************)
(* serde_json::from_str, as far as the index needs it: the JSON grammar of *)
(* RFC 8259 read into a tree of tagged values (serde's Content).           *)
(*   [k |-> "null"]  [k |-> "bool", b]  [k |-> "num", n]  [k |-> "float"]   *)
(*   [k |-> "str", s]  [k |-> "arr", a |-> <<values>>]                      *)
(*   [k |-> "obj", o |-> <<<<key, value>>, ...>>]   (members in text order) *)
(* A parser returns [ok |-> FALSE] or [ok |-> TRUE, v, rest].              *)
(***************************************************************************)

JErr == [ok |-> FALSE]
JOk(v, rest) == [ok |-> TRUE, v |-> v, rest |-> rest]

JNull == [k |-> "null"]
JStr(s) == [k |-> "str", s |-> s]
JNum(n) == [k |-> "num", n |-> n]
JArr(a) == [k |-> "arr", a |-> a]
JObj(o) == [k |-> "obj", o |-> o]

JsonWs == {" ", "\t", "\n", "\r"}
DigitChars == {"0", "1", "2", "3", "4", "5", "6", "7", "8", "9"}
Digits == "0123456789"
HexDigits == "0123456789ABCDEF"
HexLower == "abcdef"
\* The printable ASCII characters in code order: U+0020 .. U+005F and
\* U+0061 .. U+007E (a TLA+ string cannot hold U+0060, the grave accent).
AsciiLow == " !\"#$%&'()*+,-./0123456789:;<=>?@ABCDEFGHIJKLMNOPQRSTUVWXYZ[\\]^_"
AsciiHigh == "abcdefghijklmnopqrstuvwxyz{|}~"

DigitVal(c) == CHOOSE d \in 0..9 : Ch(Digits, d + 1) = c

IsHexDigit(c) ==
    c # "" /\ \E d \in 1..16 : Ch(HexDigits, d) = c \/ (d > 10 /\ Ch(HexLower, d - 10) = c)

HexVal(c) ==
    CHOOSE d \in 0..15 : Ch(HexDigits, d + 1) = c \/ (d >= 10 /\ Ch(HexLower, d - 9) = c)

\* The value of a run of 4 hex digits.
Hex4(h) ==
    HexVal(Ch(h, 1)) * 4096 + HexVal(Ch(h, 2)) * 256 + HexVal(Ch(h, 3)) * 16 + HexVal(Ch(h, 4))

IsHex4(h) == Len(h) = 4 /\ \A i \in 1..4 : IsHexDigit(Ch(h, i))

RECURSIVE HexOf(_)
HexOf(n) == IF n < 16 THEN Ch(HexDigits, n + 1) ELSE HexOf(n \div 16) \o Ch(HexDigits, (n % 16) + 1)

\* The character with code point n: itself when printable ASCII or one of the
\* escapes TLA+ can write, the token <U+hex> otherwise.
CharOf(n) ==
    IF n >= 32 /\ n <= 95 THEN Ch(AsciiLow, n - 31)
    ELSE IF n >= 97 /\ n <= 126 THEN Ch(AsciiHigh, n - 96)
    ELSE IF n = 9 THEN "\t"
    ELSE IF n = 10 THEN "\n"
    ELSE IF n = 12 THEN "\f"
    ELSE IF n = 13 THEN "\r"
    ELSE "<U+" \o HexOf(n) \o ">"

RECURSIVE SkipWs(_)
SkipWs(s) == IF s # "" /\ Ch(s, 1) \in JsonWs THEN SkipWs(Drop(s, 1)) ELSE s

\* A run of decimal digits at the head of s: [n, cnt, rest].
RECURSIVE TakeDigits(_, _, _)
TakeDigits(s, n, cnt) ==
    IF Ch(s, 1) \in DigitChars
    THEN TakeDigits(Drop(s, 1), 10 * n + DigitVal(Ch(s, 1)), cnt + 1)
    ELSE [n |-> n, cnt |-> cnt, rest |-> s]

\* The optional fraction and exponent of a number: [ok, float, rest].
JsonNumberTail(s) ==
    The({ IF frac.cnt = 0 THEN [ok |-> FALSE]
          ELSE The({ IF exp.cnt = 0 THEN [ok |-> FALSE]
                     ELSE [ok |-> TRUE, float |-> exp.rest # s, rest |-> exp.rest]
                   : exp \in {IF Ch(frac.rest, 1) \in {"e", "E"}
                              THEN TakeDigits(Drop(frac.rest,
                                                   IF Ch(frac.rest, 2) \in {"+", "-"}
                                                   THEN 2 ELSE 1), 0, 0)
                              ELSE [n |-> 0, cnt |-> 1, rest |-> frac.rest]} })
        : frac \in {IF Ch(s, 1) = "." THEN TakeDigits(Drop(s, 1), 0, 0)
                    ELSE [n |-> 0, cnt |-> 1, rest |-> s]} })

\* number: -? (0 | [1-9][0-9]*) frac? exp?
JsonNumber(s) ==
    LET neg == Ch(s, 1) = "-"
        s1  == IF neg THEN Drop(s, 1) ELSE s
    IN The({ IF int.cnt = 0 THEN JErr
             ELSE IF Ch(s1, 1) = "0" /\ Ch(s1, 2) \in DigitChars THEN JErr
             ELSE The({ IF ~tail.ok THEN JErr
                        ELSE IF tail.float \/ (neg /\ int.n = 0)
                             THEN JOk([k |-> "float"], tail.rest)
                        ELSE JOk(JNum(IF neg THEN 0 - int.n ELSE int.n), tail.rest)
                      : tail \in {JsonNumberTail(int.rest)} })
           : int \in {IF Ch(s1, 1) = "0" THEN [n |-> 0, cnt |-> 1, rest |-> Drop(s1, 1)]
                      ELSE TakeDigits(s1, 0, 0)} })

\* \uXXXX after the "\u": a scalar value, or a leading surrogate followed by
\* the escape of a trailing one; a lone surrogate is an error.
JsonUnicode(s) ==
    LET h == SubSeq(s, 1, IF Len(s) < 4 THEN Len(s) ELSE 4)
        l == SubSeq(s, 7, IF Len(s) < 10 THEN 6 ELSE 10)
    IN IF ~IsHex4(h) THEN JErr
       ELSE The({ IF n < 55296 \/ n > 57343 THEN JOk(CharOf(n), Drop(s, 4))
                  ELSE IF n <= 56319 /\ SubSeq(s, 5, IF Len(s) < 6 THEN 4 ELSE 6) = "\\u"
                          /\ IsHex4(l)
                       THEN The({ IF m >= 56320 /\ m <= 57343
                                  THEN JOk(CharOf(65536 + (n - 55296) * 1024 + (m - 56320)),
                                           Drop(s, 10))
                                  ELSE JErr
                                : m \in {Hex4(l)} })
                       ELSE JErr
                : n \in {Hex4(h)} })

\* The characters of a string after its opening quote, up to the closing one.
RECURSIVE JsonString(_, _)
JsonString(s, acc) ==
    LET c == Ch(s, 1)
        e == Ch(s, 2)
    IN IF s = "" THEN JErr
       ELSE IF c = "\"" THEN JOk(acc, Drop(s, 1))
       ELSE IF c \in {"\n", "\t", "\r", "\f"} THEN JErr
       ELSE IF c # "\\" THEN JsonString(Drop(s, 1), acc \o c)
       ELSE IF e \in {"\"", "\\", "/"} THEN JsonString(Drop(s, 2), acc \o e)
       ELSE IF e = "b" THEN JsonString(Drop(s, 2), acc \o CharOf(8))
       ELSE IF e = "f" THEN JsonString(Drop(s, 2), acc \o "\f")
       ELSE IF e = "n" THEN JsonString(Drop(s, 2), acc \o "\n")
       ELSE IF e = "r" THEN JsonString(Drop(s, 2), acc \o "\r")
       ELSE IF e = "t" THEN JsonString(Drop(s, 2), acc \o "\t")
       ELSE IF e = "u"
            THEN The({ IF u.ok THEN JsonString(u.rest, acc \o u.v) ELSE JErr
                     : u \in {JsonUnicode(Drop(s, 2))} })
       ELSE JErr

RECURSIVE JsonValue(_), JsonElements(_, _), JsonMembers(_, _)

\* One value at the head of s (no leading whitespace).
JsonValue(s) ==
    LET c == Ch(s, 1)
    IN IF c = "\""
       THEN The({ IF str.ok THEN JOk(JStr(str.v), str.rest) ELSE JErr
                : str \in {JsonString(Drop(s, 1), "")} })
       ELSE IF c = "["
       THEN The({ IF Ch(s1, 1) = "]" THEN JOk(JArr(<<>>), Drop(s1, 1))
                  ELSE JsonElements(s1, <<>>)
                : s1 \in {SkipWs(Drop(s, 1))} })
       ELSE IF c = "{"
       THEN The({ IF Ch(s1, 1) = "}" THEN JOk(JObj(<<>>), Drop(s1, 1))
                  ELSE JsonMembers(s1, <<>>)
                : s1 \in {SkipWs(Drop(s, 1))} })
       ELSE IF c = "-" \/ c \in DigitChars THEN JsonNumber(s)
       ELSE IF starts_with(s, "null") THEN JOk(JNull, Drop(s, 4))
       ELSE IF starts_with(s, "true") THEN JOk([k |-> "bool", b |-> TRUE], Drop(s, 4))
       ELSE IF starts_with(s, "false") THEN JOk([k |-> "bool", b |-> FALSE], Drop(s, 5))
       ELSE JErr

\* The elements of an array from the first one on, s at the head of a value.
JsonElements(s, acc) ==
    The({ IF ~e.ok THEN JErr
          ELSE The({ IF Ch(s1, 1) = ","
                     THEN JsonElements(SkipWs(Drop(s1, 1)), Append(acc, e.v))
                     ELSE IF Ch(s1, 1) = "]" THEN JOk(JArr(Append(acc, e.v)), Drop(s1, 1))
                     ELSE JErr
                   : s1 \in {SkipWs(e.rest)} })
        : e \in {JsonValue(s)} })

\* The members of an object from the first one on, s at the head of a key.
JsonMembers(s, acc) ==
    IF Ch(s, 1) # "\"" THEN JErr
    ELSE The({ IF ~key.ok THEN JErr
               ELSE IF Ch(SkipWs(key.rest), 1) # ":" THEN JErr
               ELSE The({ IF ~e.ok THEN JErr
                          ELSE The({ IF Ch(s2, 1) = ","
                                     THEN JsonMembers(SkipWs(Drop(s2, 1)),
                                                      Append(acc, <<key.v, e.v>>))
                                     ELSE IF Ch(s2, 1) = "}"
                                     THEN JOk(JObj(Append(acc, <<key.v, e.v>>)), Drop(s2, 1))
                                     ELSE JErr
                                   : s2 \in {SkipWs(e.rest)} })
                        : e \in {JsonValue(SkipWs(Drop(SkipWs(key.rest), 1)))} })
             : key \in {JsonString(Drop(s, 1), "")} })

\* A whole text: one value, whitespace around it, nothing after it.
from_str(text) ==
    The({ IF r.ok /\ SkipWs(r.rest) = "" THEN [ok |-> TRUE, v |-> r.v] ELSE JErr
        : r \in {JsonValue(SkipWs(text))} })

(***************************************************************************)
(* Results: Result<T, Error> is [ok |-> TRUE, v] or [ok |-> FALSE, err];   *)
(* a panic (an index out of bounds) is the value Panic.                    *)
(***************************************************************************)

Ok(v) == [ok |-> TRUE, v |-> v]
Err(e) == [ok |-> FALSE, err |-> e]
Panic == [ok |-> FALSE, err |-> "panic"]

Min2(a, b) == IF a <= b THEN a ELSE b

(***************************************************************************)
(* ItemType: the enum, its discriminants, as_str and from_raw              *)
(***************************************************************************)

\* The variants in declaration order; the discriminant of the k-th is k - 1.
ItemType ==
    << "Module", "ExternCrate", "Import", "Struct", "Enum", "Function", "Typedef",
       "Static", "Trait", "Impl", "TyMethod", "Method", "StructField", "Variant",
       "Macro", "Primitive", "AssocType", "Constant", "AssocConst", "Union",
       "ForeignType", "Keyword", "OpaqueTy", "ProcAttribute", "ProcDerive",
       "TraitAlias" >>

ItemTypes == {ItemType[k] : k \in 1..Len(ItemType)}

Discriminant(ty) == (CHOOSE k \in 1..Len(ItemType) : ItemType[k] = ty) - 1

as_str(ty) ==
    CASE ty = "Module" -> "mod"
      [] ty = "ExternCrate" -> "externcrate"
      [] ty = "Import" -> "import"
      [] ty = "Struct" -> "struct"
      [] ty = "Union" -> "union"
      [] ty = "Enum" -> "enum"
      [] ty = "Function" -> "fn"
      [] ty = "Typedef" -> "type"
      [] ty = "Static" -> "static"
      [] ty = "Trait" -> "trait"
      [] ty = "Impl" -> "impl"
      [] ty = "TyMethod" -> "tymethod"
      [] ty = "Method" -> "method"
      [] ty = "StructField" -> "structfield"
      [] ty = "Variant" -> "variant"
      [] ty = "Macro" -> "macro"
      [] ty = "Primitive" -> "primitive"
      [] ty = "AssocType" -> "associatedtype"
      [] ty = "Constant" -> "constant"
      [] ty = "AssocConst" -> "associatedconstant"
      [] ty = "ForeignType" -> "foreigntype"
      [] ty = "Keyword" -> "keyword"
      [] ty = "OpaqueTy" -> "opaque"
      [] ty = "ProcAttribute" -> "attr"
      [] ty = "ProcDerive" -> "derive"
      [] ty = "TraitAlias" -> "traitalias"

from_raw(value) ==
    CASE value = 0 -> Some("Module")
      [] value = 1 -> Some("ExternCrate")
      [] value = 2 -> Some("Import")
      [] value = 3 -> Some("Struct")
      [] value = 4 -> Some("Enum")
      [] value = 5 -> Some("Function")
      [] value = 6 -> Some("Typedef")
      [] value = 7 -> Some("Static")
      [] value = 8 -> Some("Trait")
      [] value = 9 -> Some("Impl")
      [] value = 10 -> Some("TyMethod")
      [] value = 11 -> Some("Method")
      [] value = 12 -> Some("StructField")
      [] value = 13 -> Some("Variant")
      [] value = 14 -> Some("Macro")
      [] value = 15 -> Some("Primitive")
      [] value = 16 -> Some("AssocType")
      [] value = 17 -> Some("Constant")
      [] value = 18 -> Some("AssocConst")
      [] value = 19 -> Some("Union")
      [] value = 20 -> Some("ForeignType")
      [] value = 21 -> Some("Keyword")
      [] value = 22 -> Some("OpaqueTy")
      [] value = 23 -> Some("ProcAttribute")
      [] value = 24 -> Some("ProcDerive")
      [] value = 25 -> Some("TraitAlias")
      [] OTHER -> None

\* The code of no variant read as the first variant instead of refused.
ItemType_deserialize_or_default(v) ==
    IF v.k # "num" THEN Err("Json")
    ELSE IF v.n >= 0 /\ v.n < Len(ItemType) THEN Ok(ItemType[v.n + 1])
    ELSE Ok(ItemType[1])

\* #[derive(Deserialize_repr)] #[repr(u8)]: a u8 that is the discriminant of
\* a variant; anything else is an error.
ItemType_deserialize(v) ==
    IF v.k = "num" /\ v.n >= 0 /\ v.n <= 255 /\ \E ty \in ItemTypes : Discriminant(ty) = v.n
    THEN Ok(CHOOSE ty \in ItemTypes : Discriminant(ty) = v.n)
    ELSE Err("Json")

(***************************************************************************)
(* Deserialization of the JSON tree into RawIndexData (serde derive and    *)
(* the two custom visitors t and q)                                        *)
(***************************************************************************)

String_deserialize(v) == IF v.k = "str" THEN Ok(v.s) ELSE Err("Json")

usize_deserialize(v) == IF v.k = "num" /\ v.n >= 0 THEN Ok(v.n) ELSE Err("Json")

\* The elements of a JSON array, none for any other value.
Elements(v) == IF v.k = "arr" THEN v.a ELSE <<>>

\* Vec<T>: a JSON array every element of which deserializes; elements are
\* the results of its elements.
Vec_deserialize(v, elements) ==
    IF v.k = "arr" /\ \A j \in DOMAIN elements : elements[j].ok
    THEN Ok([j \in DOMAIN elements |-> elements[j].v])
    ELSE Err("Json")

\* (ItemType, String): an array of exactly two elements.
ParentPath_deserialize(v) ==
    IF v.k = "arr" /\ Len(v.a) = 2 /\ ItemType_deserialize(v.a[1]).ok
       /\ String_deserialize(v.a[2]).ok
    THEN Ok(<<ItemType_deserialize(v.a[1]).v, v.a[2].s>>)
    ELSE Err("Json")

AsciiUppercase == "ABCDEFGHIJKLMNOPQRSTUVWXYZ"

is_ascii_uppercase(c) == \E k \in 1..Len(AsciiUppercase) : Ch(AsciiUppercase, k) = c

\* ascii - b'A', for a byte that is an ASCII uppercase letter.
SubA(c) == (CHOOSE k \in 1..Len(AsciiUppercase) : Ch(AsciiUppercase, k) = c) - 1

\* The byte decoded as ascii - b'@'.
VisitStrByte_from_at(c) ==
    IF is_ascii_uppercase(c) THEN from_raw(SubA(c) + 1) ELSE None

\* One byte of the packed string: is_ascii_uppercase().then(from_raw).flatten()
VisitStrByte(c) ==
    IF is_ascii_uppercase(c) THEN from_raw(SubA(c)) ELSE None

VecItemTypeVisitor_visit_str(s) ==
    IF \A j \in 1..Len(s) : VisitStrByte(Ch(s, j)).some
    THEN Ok([j \in 1..Len(s) |-> VisitStrByte(Ch(s, j)).v])
    ELSE Err("Json")

VecItemTypeVisitor_visit_seq(a) ==
    Vec_deserialize(JArr(a), [j \in DOMAIN a |-> ItemType_deserialize(a[j])])

\* fn t: deserialize_any with VecItemTypeVisitor (a string or a sequence).
t_deserialize(v) ==
    IF v.k = "str" THEN VecItemTypeVisitor_visit_str(v.s)
    ELSE IF v.k = "arr" THEN VecItemTypeVisitor_visit_seq(v.a)
    ELSE Err("Json")

\* The untagged enum Value of VecPathVisitor: String(String) or
\* Tuple((usize, String)).
PathValue_deserialize(v) ==
    IF v.k = "str" THEN Ok([tag |-> "String", name |-> v.s])
    ELSE IF v.k = "arr" /\ Len(v.a) = 2 /\ usize_deserialize(v.a[1]).ok
            /\ String_deserialize(v.a[2]).ok
         THEN Ok([tag |-> "Tuple", position |-> v.a[1].n, name |-> v.a[2].s])
         ELSE Err("Json")

\* BTreeMap::insert on a map held as a function.
Insert(map, key, value) ==
    [x \in DOMAIN map \cup {key} |-> IF x = key THEN value ELSE map[x]]

EmptyMap == [x \in {} |-> ""]

\* The loop that keeps the empty strings of the dense form.
RECURSIVE VisitPathSeq_keep_empty(_, _, _, _)
VisitPathSeq_keep_empty(a, j, map, position) ==
    IF j > Len(a) THEN Ok(map)
    ELSE The({ IF ~element.ok THEN Err("Json")
               ELSE IF element.v.tag = "String"
                    THEN VisitPathSeq_keep_empty(a, j + 1,
                                                 Insert(map, position, element.v.name),
                                                 position + 1)
               ELSE VisitPathSeq_keep_empty(a, j + 1,
                                            Insert(map, element.v.position, element.v.name),
                                            position + 1)
             : element \in {PathValue_deserialize(a[j])} })

\* The loop with the counter following the tuples: the element after a
\* tuple takes the position after that of the tuple.
RECURSIVE VisitPathSeq_from_tuple(_, _, _, _)
VisitPathSeq_from_tuple(a, j, map, position) ==
    IF j > Len(a) THEN Ok(map)
    ELSE The({ IF ~element.ok THEN Err("Json")
               ELSE IF element.v.tag = "String" /\ element.v.name = ""
                    THEN VisitPathSeq_from_tuple(a, j + 1, map, position + 1)
               ELSE IF element.v.tag = "String"
                    THEN VisitPathSeq_from_tuple(a, j + 1,
                                                 Insert(map, position, element.v.name),
                                                 position + 1)
               ELSE VisitPathSeq_from_tuple(a, j + 1,
                                            Insert(map, element.v.position, element.v.name),
                                            element.v.position + 1)
             : element \in {PathValue_deserialize(a[j])} })

\* The loop of VecPathVisitor::visit_seq from element j on.
RECURSIVE VisitPathSeq(_, _, _, _)
VisitPathSeq(a, j, map, position) ==
    IF j > Len(a) THEN Ok(map)
    ELSE The({ IF ~element.ok THEN Err("Json")
               ELSE IF element.v.tag = "String" /\ element.v.name = ""
                    THEN VisitPathSeq(a, j + 1, map, position + 1)
               ELSE IF element.v.tag = "String"
                    THEN VisitPathSeq(a, j + 1, Insert(map, position, element.v.name),
                                      position + 1)
               ELSE VisitPathSeq(a, j + 1,
                                 Insert(map, element.v.position, element.v.name),
                                 position + 1)
             : element \in {PathValue_deserialize(a[j])} })

VecPathVisitor_visit_seq(a) == VisitPathSeq(a, 1, EmptyMap, 0)

\* fn q: deserialize_seq with VecPathVisitor.
q_deserialize(v) == IF v.k = "arr" THEN VecPathVisitor_visit_seq(v.a) ELSE Err("Json")

Vec_String(v) ==
    Vec_deserialize(v, [j \in DOMAIN Elements(v) |-> String_deserialize(Elements(v)[j])])

Vec_usize(v) ==
    Vec_deserialize(v, [j \in DOMAIN Elements(v) |-> usize_deserialize(Elements(v)[j])])

Vec_ParentPath(v) ==
    Vec_deserialize(v, [j \in DOMAIN Elements(v) |-> ParentPath_deserialize(Elements(v)[j])])

\* The positions of the members of object o whose key is name.
Members(o, name) == {j \in 1..Len(o) : o[j][1] = name}

RawCrateFields == <<"doc", "t", "n", "q", "d", "i", "p">>

\* The derived visit_seq of a struct: its fields by position.
SeqAsMembers(a, fields) == [j \in 1..Len(a) |-> <<fields[j], a[j]>>]

\* #[derive(Deserialize)] struct RawCrateData: every field exactly once, other
\* keys ignored; from a sequence, the fields by position.
RawCrateData_of(o) ==
    LET f(name) == o[CHOOSE j \in Members(o, name) : TRUE][2]
    IN IF \E j \in 1..Len(RawCrateFields) : Cardinality(Members(o, RawCrateFields[j])) # 1
       THEN Err("Json")
       ELSE The({ IF \A name \in DOMAIN r : r[name].ok
                  THEN Ok([name \in DOMAIN r |-> r[name].v])
                  ELSE Err("Json")
                : r \in {[doc |-> String_deserialize(f("doc")),
                          t |-> t_deserialize(f("t")),
                          n |-> Vec_String(f("n")),
                          q |-> q_deserialize(f("q")),
                          d |-> Vec_String(f("d")),
                          i |-> Vec_usize(f("i")),
                          p |-> Vec_ParentPath(f("p"))]} })

RawCrateData_deserialize(v) ==
    IF v.k = "obj" THEN RawCrateData_of(v.o)
    ELSE IF v.k = "arr" /\ Len(v.a) = Len(RawCrateFields)
         THEN RawCrateData_of(SeqAsMembers(v.a, RawCrateFields))
         ELSE Err("Json")

\* The position of the last member of o with this key (HashMap::insert
\* replaces).
LastMember(o, name) == CHOOSE j \in Members(o, name) : \A m \in Members(o, name) : m <= j

\* The members of a JSON object, none for any other value.
MembersOf(v) == IF v.k = "obj" THEN v.o ELSE <<>>

\* #[serde(flatten)] crates: HashMap<String, C>: a JSON object every member
\* of which deserializes; crates are the results of its members.
Crates_deserialize(v, crates) ==
    IF v.k # "obj" THEN Err("Json")
    ELSE IF \E j \in DOMAIN crates : ~crates[j].ok THEN Err("Json")
    ELSE Ok([name \in {v.o[j][1] : j \in 1..Len(v.o)} |-> crates[LastMember(v.o, name)].v])

RawIndexData_deserialize(v) ==
    Crates_deserialize(v, [j \in DOMAIN MembersOf(v) |->
                              RawCrateData_deserialize(MembersOf(v)[j][2])])

(***************************************************************************)
(* load_raw (epoch 3)                                                      *)
(***************************************************************************)

\* The fold that keeps the backslash at the end of a line.
RECURSIVE FoldLines_keep_backslash(_, _)
FoldLines_keep_backslash(ls, json) ==
    IF ls = <<>> THEN json
    ELSE FoldLines_keep_backslash(Tail(ls),
                                  IF starts_with(Head(ls), "\"") /\ ends_with(Head(ls), "\\")
                                  THEN json \o Head(ls) ELSE json)

\* The filter_map and fold of load_raw: the lines that start with a quote and
\* end with a backslash, that backslash removed, appended to json.
RECURSIVE FoldLines(_, _)
FoldLines(ls, json) ==
    IF ls = <<>> THEN json
    ELSE LET l == Head(ls)
             kept == IF starts_with(l, "\"") THEN strip_suffix(l, "\\") ELSE None
         IN FoldLines(Tail(ls), IF kept.some THEN json \o kept.v ELSE json)

\* The replacements in another order: the double backslash first.
AssembleJson_backslash_first(text) ==
    replace(replace(replace(FoldLines(lines(text), "{") \o "}",
                            "\\\\", "\\"),
                    "\\\\\"", "\\\""),
            "\\'", "'")

\* The JSON text both load_raw functions build from the index.
AssembleJson(text) ==
    replace(replace(replace(FoldLines(lines(text), "{") \o "}",
                            "\\\\\"", "\\\""),
                    "\\'", "'"),
            "\\\\", "\\")

load_raw(text) ==
    The({ IF json.ok THEN RawIndexData_deserialize(json.v) ELSE Err("Json")
        : json \in {from_str(AssembleJson(text))} })

(***************************************************************************)
(* transform                                                               *)
(***************************************************************************)

\* raw_data.q.remove(&pos).unwrap_or(path): the path of q at pos, the path
\* carried so far when q has none.
remove_unwrap_or_default(q, pos, path) == IF pos \in DOMAIN q THEN q[pos] ELSE ""

remove_unwrap_or(q, pos, path) == IF pos \in DOMAIN q THEN q[pos] ELSE path

\* if i > 0 { Some(i - 1) } else { None }
parent_idx_unshifted(i) == IF i > 0 THEN Some(i) ELSE None

parent_idx(i) == IF i > 0 THEN Some(i - 1) ELSE None

\* The fold of transform over the zip of t, n, d and i, from position pos
\* (0-based) on; q loses the entries it hands out.
RECURSIVE TransformFold(_, _, _, _, _)
TransformFold(rd, pos, items, path, q) ==
    IF pos >= Min2(Min2(Len(rd.t), Len(rd.n)), Min2(Len(rd.d), Len(rd.i))) THEN items
    ELSE LET path2 == remove_unwrap_or(q, pos, path)
             item == [ty |-> rd.t[pos + 1],
                      name |-> rd.n[pos + 1],
                      path |-> path2,
                      desc |-> rd.d[pos + 1],
                      parent_idx |-> parent_idx(rd.i[pos + 1])]
         IN TransformFold(rd, pos + 1, Append(items, item), path2,
                          [x \in DOMAIN q \ {pos} |-> q[x]])

\* transform of a package with an item for every position of the longest
\* column, the missing fields taken as Module, "" and 0.
transform_crate_padded(rd) ==
    [doc |-> rd.doc,
     items |-> [j \in 1..Cardinality(DOMAIN rd.t \cup DOMAIN rd.n \cup DOMAIN rd.d
                                     \cup DOMAIN rd.i) |->
                  [ty |-> IF j <= Len(rd.t) THEN rd.t[j] ELSE "Module",
                   name |-> IF j <= Len(rd.n) THEN rd.n[j] ELSE "",
                   path |-> IF \E k \in DOMAIN rd.q : k < j
                            THEN rd.q[CHOOSE k \in DOMAIN rd.q :
                                        k < j /\ \A m \in DOMAIN rd.q : m < j => m <= k]
                            ELSE "",
                   desc |-> IF j <= Len(rd.d) THEN rd.d[j] ELSE "",
                   parent_idx |-> IF j <= Len(rd.i) THEN parent_idx(rd.i[j]) ELSE None]],
     paths |-> rd.p]

\* transform of a package with the doc string left empty.
transform_crate_without_doc(rd) ==
    [doc |-> "", items |-> TransformFold(rd, 0, <<>>, "", rd.q), paths |-> rd.p]

transform_crate(rd) ==
    [doc |-> rd.doc, items |-> TransformFold(rd, 0, <<>>, "", rd.q), paths |-> rd.p]

\* transform with the path accumulator of a package starting from a path
\* of another package of the index.
transform_carried(rawIndex) ==
    [name \in DOMAIN rawIndex |->
        [doc |-> rawIndex[name].doc,
         items |-> TransformFold(rawIndex[name], 0, <<>>,
                                 IF \E other \in DOMAIN rawIndex \ {name} :
                                        rawIndex[other].q # <<>>
                                 THEN The({ rawIndex[other].q[CHOOSE pos \in DOMAIN rawIndex[other].q : TRUE]
                                          : other \in {CHOOSE other \in DOMAIN rawIndex \ {name} :
                                                          rawIndex[other].q # <<>>} })
                                 ELSE "",
                                 rawIndex[name].q),
         paths |-> rawIndex[name].p]]

transform(rawIndex) == [name \in DOMAIN rawIndex |-> transform_crate(rawIndex[name])]

(***************************************************************************)
(* generate_mapping                                                        *)
(***************************************************************************)

\* paths[idx] panics when idx is out of bounds.
ItemPanics(item, paths) == item.parent_idx.some /\ item.parent_idx.v >= Len(paths)

full_path_without_parent(item, paths) == item.path \o "::" \o item.name

full_path(item, paths) ==
    IF item.parent_idx.some
    THEN item.path \o "::" \o paths[item.parent_idx.v + 1][2] \o "::" \o item.name
    ELSE item.path \o "::" \o item.name

url_without_replace(item, paths) ==
    IF item.parent_idx.some
    THEN LET parent == paths[item.parent_idx.v + 1]
         IN item.path \o "/" \o as_str(parent[1]) \o "." \o parent[2]
            \o ".html#" \o as_str(item.ty) \o "." \o item.name
    ELSE item.path \o "/" \o as_str(item.ty) \o "." \o item.name \o ".html"

url(item, paths) ==
    IF item.parent_idx.some
    THEN LET parent == paths[item.parent_idx.v + 1]
         IN replace(item.path, "::", "/") \o "/" \o as_str(parent[1]) \o "." \o parent[2]
            \o ".html#" \o as_str(item.ty) \o "." \o item.name
    ELSE replace(item.path, "::", "/") \o "/" \o as_str(item.ty) \o "." \o item.name
         \o ".html"

\* collect() into a BTreeMap: the pairs inserted in item order.
RECURSIVE CollectMapping(_, _, _, _)
CollectMapping(items, paths, j, map) ==
    IF j > Len(items) THEN map
    ELSE CollectMapping(items, paths, j + 1,
                        Insert(map, full_path(items[j], paths), url(items[j], paths)))

\* collect() in which the earlier of two items with one key stays.
RECURSIVE CollectMapping_first(_, _, _, _)
CollectMapping_first(items, paths, j, map) ==
    IF j < 1 THEN map
    ELSE CollectMapping_first(items, paths, j - 1,
                              Insert(map, full_path(items[j], paths), url(items[j], paths)))

generate_crate_mapping_first(crate) ==
    IF \E j \in 1..Len(crate.items) : ItemPanics(crate.items[j], crate.paths)
    THEN Panic
    ELSE Ok(CollectMapping_first(crate.items, crate.paths, Len(crate.items), EmptyMap))

generate_crate_mapping(crate) ==
    IF \E j \in 1..Len(crate.items) : ItemPanics(crate.items[j], crate.paths)
    THEN Panic
    ELSE Ok(CollectMapping(crate.items, crate.paths, 1, EmptyMap))

generate_mapping(indexData) ==
    IF \E name \in DOMAIN indexData : ~generate_crate_mapping(indexData[name]).ok
    THEN Panic
    ELSE Ok([name \in DOMAIN indexData |-> generate_crate_mapping(indexData[name]).v])

(***************************************************************************)
(* index/v2.rs: the tuple form (epoch 2)                                   *)
(***************************************************************************)

\* Option<T>: null is None, anything else must deserialize as T; inner is
\* the result of that.
Option_deserialize(v, inner) ==
    IF v.k = "null" THEN Ok(None)
    ELSE IF inner.ok THEN Ok(Some(inner.v))
    ELSE Err("Json")

unwrap_or_default(opt, default) == IF opt.some THEN opt.v ELSE default

\* Vec<serde_json::Value>: any array.
Vec_Value(v) == IF v.k = "arr" THEN Ok(v.a) ELSE Err("Json")

EntryArity == 6

\* The tuple read with the missing fields taken as null and the fields
\* after the sixth left unread.
Entry_deserialize_padded(v) ==
    IF v.k # "arr" THEN Err("Json")
    ELSE The({ IF \A name \in DOMAIN r : r[name].ok
               THEN Ok([name \in {"t", "n", "q", "d", "i"} |-> r[name].v])
               ELSE Err("Json")
             : r \in {[t |-> ItemType_deserialize(a[1]),
                       n |-> Option_deserialize(a[2], String_deserialize(a[2])),
                       q |-> Option_deserialize(a[3], String_deserialize(a[3])),
                       d |-> Option_deserialize(a[4], String_deserialize(a[4])),
                       i |-> Option_deserialize(a[5], usize_deserialize(a[5])),
                       f |-> Option_deserialize(a[6], Vec_Value(a[6]))] :
                      a \in {[j \in 1..EntryArity |->
                                 IF j <= Len(v.a) THEN v.a[j] ELSE JNull]}} })

\* #[derive(Deserialize_tuple)] struct Entry: an array of exactly the six
\* fields t, n, q, d, i, f.
Entry_deserialize(v) ==
    IF v.k # "arr" THEN Err("Json")
    ELSE IF Len(v.a) # EntryArity THEN Err("Json")
    ELSE The({ IF \A name \in DOMAIN r : r[name].ok
               THEN Ok([name \in {"t", "n", "q", "d", "i"} |-> r[name].v])
               ELSE Err("Json")
             : r \in {[t |-> ItemType_deserialize(v.a[1]),
                       n |-> Option_deserialize(v.a[2], String_deserialize(v.a[2])),
                       q |-> Option_deserialize(v.a[3], String_deserialize(v.a[3])),
                       d |-> Option_deserialize(v.a[4], String_deserialize(v.a[4])),
                       i |-> Option_deserialize(v.a[5], usize_deserialize(v.a[5])),
                       f |-> Option_deserialize(v.a[6], Vec_Value(v.a[6]))]} })

Vec_Entry(v) ==
    Vec_deserialize(v, [j \in DOMAIN Elements(v) |-> Entry_deserialize(Elements(v)[j])])

RawCrateFieldsV2 == <<"doc", "i", "p">>

\* #[derive(Deserialize)] struct RawCrate { doc, i, p }.
RawCrate_of(o) ==
    LET f(name) == o[CHOOSE j \in Members(o, name) : TRUE][2]
    IN IF \E j \in 1..Len(RawCrateFieldsV2) :
             Cardinality(Members(o, RawCrateFieldsV2[j])) # 1
       THEN Err("Json")
       ELSE The({ IF \A name \in DOMAIN r : r[name].ok
                  THEN Ok([name \in DOMAIN r |-> r[name].v])
                  ELSE Err("Json")
                : r \in {[doc |-> String_deserialize(f("doc")),
                          i |-> Vec_Entry(f("i")),
                          p |-> Vec_ParentPath(f("p"))]} })

RawCrate_deserialize(v) ==
    IF v.k = "obj" THEN RawCrate_of(v.o)
    ELSE IF v.k = "arr" /\ Len(v.a) = Len(RawCrateFieldsV2)
         THEN RawCrate_of(SeqAsMembers(v.a, RawCrateFieldsV2))
         ELSE Err("Json")

\* From<RawCrate> with an entry of q for every tuple, the empty path for a
\* tuple without one.
RawCrateData_from_dense(rc) ==
    LET len == Len(rc.i)
    IN [doc |-> rc.doc,
        t |-> [j \in 1..len |-> rc.i[j].t],
        n |-> [j \in 1..len |-> unwrap_or_default(rc.i[j].n, "")],
        q |-> [pos \in 0..(len - 1) |-> unwrap_or_default(rc.i[pos + 1].q, "")],
        d |-> [j \in 1..len |-> unwrap_or_default(rc.i[j].d, "")],
        i |-> [j \in 1..len |-> unwrap_or_default(rc.i[j].i, 0)],
        p |-> rc.p]

\* From<RawCrate> with an entry of q for every tuple whose path is not
\* null, the empty one included.
RawCrateData_from_present(rc) ==
    LET len == Len(rc.i)
    IN [doc |-> rc.doc,
        t |-> [j \in 1..len |-> rc.i[j].t],
        n |-> [j \in 1..len |-> unwrap_or_default(rc.i[j].n, "")],
        q |-> [pos \in {j - 1 : j \in {m \in 1..len : rc.i[m].q.some}} |-> rc.i[pos + 1].q.v],
        d |-> [j \in 1..len |-> unwrap_or_default(rc.i[j].d, "")],
        i |-> [j \in 1..len |-> unwrap_or_default(rc.i[j].i, 0)],
        p |-> rc.p]

\* From<RawCrate> with the descriptions taken from the names.
RawCrateData_from_names(rc) ==
    LET len == Len(rc.i)
        path(j) == unwrap_or_default(rc.i[j].q, "")
    IN [doc |-> rc.doc,
        t |-> [j \in 1..len |-> rc.i[j].t],
        n |-> [j \in 1..len |-> unwrap_or_default(rc.i[j].n, "")],
        q |-> [pos \in {j - 1 : j \in {m \in 1..len : path(m) # ""}} |-> path(pos + 1)],
        d |-> [j \in 1..len |-> unwrap_or_default(rc.i[j].n, "")],
        i |-> [j \in 1..len |-> unwrap_or_default(rc.i[j].i, 0)],
        p |-> rc.p]

\* impl From<RawCrate> for RawCrateData
RawCrateData_from(rc) ==
    LET len == Len(rc.i)
        path(j) == unwrap_or_default(rc.i[j].q, "")
    IN [doc |-> rc.doc,
        t |-> [j \in 1..len |-> rc.i[j].t],
        n |-> [j \in 1..len |-> unwrap_or_default(rc.i[j].n, "")],
        q |-> [pos \in {j - 1 : j \in {m \in 1..len : path(m) # ""}} |-> path(pos + 1)],
        d |-> [j \in 1..len |-> unwrap_or_default(rc.i[j].d, "")],
        i |-> [j \in 1..len |-> unwrap_or_default(rc.i[j].i, 0)],
        p |-> rc.p]

RawIndex_deserialize(v) ==
    Crates_deserialize(v, [j \in DOMAIN MembersOf(v) |->
                              RawCrate_deserialize(MembersOf(v)[j][2])])

v2_load_raw(text) ==
    The({ IF ~json.ok THEN Err("Json")
          ELSE The({ IF rawIndex.ok
                     THEN Ok([name \in DOMAIN rawIndex.v |->
                                 RawCrateData_from(rawIndex.v[name])])
                     ELSE Err("Json")
                   : rawIndex \in {RawIndex_deserialize(json.v)} })
        : json \in {from_str(AssembleJson(text))} })

(***************************************************************************)
(* index/v1.rs: the legacy literal form (epoch 1), a winnow parser.  A     *)
(* parser returns [ok |-> FALSE] or [ok |-> TRUE, v, rest]; a failure      *)
(* inside a string, array, object or reference is cut (no alternative is   *)
(* tried), and every alternative of the grammar starts with a different    *)
(* character, so a failure anywhere fails the whole parse.                 *)
(***************************************************************************)

\* char::from_u32(n).unwrap_or('\u{FFFD}') for a 16-bit n: None for the
\* surrogates U+D800 .. U+DFFF.
from_u32_or_replacement(n) == IF n >= 55296 /\ n <= 57343 THEN CharOf(65533) ELSE CharOf(n)

\* take_while(4, is_hex_digit) mapped to the character.
unicode_escape(s) ==
    LET hex == SubSeq(s, 1, IF Len(s) < 4 THEN Len(s) ELSE 4)
    IN IF IsHex4(hex) THEN JOk(from_u32_or_replacement(Hex4(hex)), Drop(s, 4)) ELSE JErr

\* One character of a string: none_of('"'), an escape after a backslash.
character(s) ==
    LET c == Ch(s, 1)
        e == Ch(s, 2)
    IN IF s = "" \/ c = "\"" THEN JErr
       ELSE IF c # "\\" THEN JOk(c, Drop(s, 1))
       ELSE IF e \in {"\"", "\\", "/"} THEN JOk(e, Drop(s, 2))
       ELSE IF e = "b" THEN JOk(CharOf(8), Drop(s, 2))
       ELSE IF e = "f" THEN JOk("\f", Drop(s, 2))
       ELSE IF e = "n" THEN JOk("\n", Drop(s, 2))
       ELSE IF e = "r" THEN JOk("\r", Drop(s, 2))
       ELSE IF e = "t" THEN JOk("\t", Drop(s, 2))
       ELSE IF e = "u" THEN unicode_escape(Drop(s, 2))
       ELSE JErr

\* fold_repeat(0.., character): the characters up to the first failure.
RECURSIVE FoldCharacters(_, _)
FoldCharacters(s, acc) ==
    The({ IF c.ok THEN FoldCharacters(c.rest, acc \o c.v) ELSE JOk(acc, s)
        : c \in {character(s)} })

\* string: a quote, the characters, a quote.
string(s) ==
    IF Ch(s, 1) # "\"" THEN JErr
    ELSE The({ IF Ch(body.rest, 1) = "\"" THEN JOk(body.v, Drop(body.rest, 1)) ELSE JErr
             : body \in {FoldCharacters(Drop(s, 1), "")} })

\* dec_uint: a non-empty run of decimal digits.
number(s) ==
    The({ IF d.cnt > 0 THEN JOk(d.n, d.rest) ELSE JErr : d \in {TakeDigits(s, 0, 0)} })

\* reference with the empty string for a number outside of the table.
reference_or_default(s, r) ==
    IF ~starts_with(s, "R[") THEN JErr
    ELSE The({ IF n.ok /\ Ch(n.rest, 1) = "]"
               THEN JOk(JStr(IF n.v < Len(r) THEN r[n.v + 1] ELSE ""), Drop(n.rest, 1))
               ELSE JErr
             : n \in {number(Drop(s, 2))} })

\* reference with the table counted from 1.
reference_one_based(s, r) ==
    IF ~starts_with(s, "R[") THEN JErr
    ELSE The({ IF n.ok /\ n.v >= 1 /\ n.v <= Len(r) /\ Ch(n.rest, 1) = "]"
               THEN JOk(JStr(r[n.v]), Drop(n.rest, 1))
               ELSE JErr
             : n \in {number(Drop(s, 2))} })

\* reference: R[n], the n-th string of the reference table r.
reference(s, r) ==
    IF ~starts_with(s, "R[") THEN JErr
    ELSE The({ IF n.ok /\ n.v < Len(r) /\ Ch(n.rest, 1) = "]"
               THEN JOk(JStr(r[n.v + 1]), Drop(n.rest, 1))
               ELSE JErr
             : n \in {number(Drop(s, 2))} })

\* The members of a HashMap collected from pairs: the last of each key.
HashMapOf(pairs) ==
    LET keep == {j \in 1..Len(pairs) : \A m \in (j + 1)..Len(pairs) : pairs[m][1] # pairs[j][1]}
        RECURSIVE Pick(_)
        Pick(j) == IF j > Len(pairs) THEN <<>>
                   ELSE (IF j \in keep THEN <<pairs[j]>> ELSE <<>>) \o Pick(j + 1)
    IN Pick(1)

RECURSIVE json_value(_, _), ArrayElements(_, _, _), ObjectMembers(_, _, _)

json_value(s, r) ==
    LET c == Ch(s, 1)
    IN IF c = "n" THEN (IF starts_with(s, "null") THEN JOk(JNull, Drop(s, 4)) ELSE JErr)
       ELSE IF c \in DigitChars
       THEN The({ JOk(JNum(num.v), num.rest) : num \in {number(s)} })
       ELSE IF c = "\""
       THEN The({ IF str.ok THEN JOk(JStr(str.v), str.rest) ELSE JErr : str \in {string(s)} })
       ELSE IF c = "["
       THEN The({ IF Ch(s1, 1) = "]" THEN JOk(JArr(<<>>), Drop(s1, 1))
                  ELSE ArrayElements(s1, r, <<>>)
                : s1 \in {SkipWs(Drop(s, 1))} })
       ELSE IF c = "{"
       THEN The({ IF Ch(s1, 1) = "}" THEN JOk(JObj(<<>>), Drop(s1, 1))
                  ELSE ObjectMembers(s1, r, <<>>)
                : s1 \in {SkipWs(Drop(s, 1))} })
       ELSE IF c = "N" THEN JOk(JNull, Drop(s, 1))
       ELSE IF c = "E" THEN JOk(JStr(""), Drop(s, 1))
       ELSE IF c = "T" THEN JOk(JStr("t"), Drop(s, 1))
       ELSE IF c = "U" THEN JOk(JStr("u"), Drop(s, 1))
       ELSE IF c = "R" THEN reference(s, r)
       ELSE JErr

\* array: separated0(json_value, (ws, ',', ws)) then (ws, ']'), s at the
\* head of an element; after a separator an element must follow.
ArrayElements(s, r, acc) ==
    The({ IF ~e.ok THEN JErr
          ELSE The({ IF Ch(s1, 1) = ","
                     THEN ArrayElements(SkipWs(Drop(s1, 1)), r, Append(acc, e.v))
                     ELSE IF Ch(s1, 1) = "]" THEN JOk(JArr(Append(acc, e.v)), Drop(s1, 1))
                     ELSE JErr
                   : s1 \in {SkipWs(e.rest)} })
        : e \in {json_value(s, r)} })

\* object: separated0(key_value, (ws, ',', ws)) then (ws, '}'), where
\* key_value is separated_pair(string, (ws, ':', ws), json_value).
ObjectMembers(s, r, acc) ==
    The({ IF ~key.ok THEN JErr
          ELSE IF Ch(SkipWs(key.rest), 1) # ":" THEN JErr
          ELSE The({ IF ~e.ok THEN JErr
                     ELSE The({ IF Ch(s2, 1) = ","
                                THEN ObjectMembers(SkipWs(Drop(s2, 1)), r,
                                                   Append(acc, <<key.v, e.v>>))
                                ELSE IF Ch(s2, 1) = "}"
                                THEN JOk(JObj(HashMapOf(Append(acc, <<key.v, e.v>>))),
                                         Drop(s2, 1))
                                ELSE JErr
                              : s2 \in {SkipWs(e.rest)} })
                   : e \in {json_value(SkipWs(Drop(SkipWs(key.rest), 1)), r)} })
        : key \in {string(s)} })

\* json.parse(..): delimited(ws, json_value, ws) on the whole input.
json_parse(s, r) ==
    The({ IF v.ok /\ SkipWs(v.rest) = "" THEN [ok |-> TRUE, v |-> v.v] ELSE JErr
        : v \in {json_value(SkipWs(s), r)} })

\* The first line with the prefix "var R=", that prefix removed.
RECURSIVE FindMapR(_)
FindMapR(ls) ==
    IF ls = <<>> THEN None
    ELSE IF strip_prefix(Head(ls), "var R=").some THEN strip_prefix(Head(ls), "var R=")
    ELSE FindMapR(Tail(ls))

\* str::split_once
split_once(s, sep) ==
    The({ IF i = 0 THEN None ELSE Some(<<SubSeq(s, 1, i - 1), Drop(s, i + Len(sep) - 1)>>)
        : i \in {find(s, sep)} })

\* The entry of one line: searchIndex["<name>"]=<index>; or None.
EntryOfLine(line) ==
    LET a == strip_prefix(line, "searchIndex[\"")
        b == IF a.some THEN strip_suffix(a.v, ";") ELSE None
    IN IF b.some THEN split_once(b.v, "\"]=") ELSE None

\* One entry decoded: the parse, the conversion to a serde_json::Value, and
\* from_value::<RawCrate>(..).into().
V1Crate(entry, r) ==
    The({ IF ~json.ok THEN Err("InvalidIndexJavaScript")
          ELSE The({ IF ~rawCrate.ok THEN Err("InvalidIndexJson")
                     ELSE Ok(RawCrateData_from(rawCrate.v))
                   : rawCrate \in {RawCrate_deserialize(json.v)} })
        : json \in {json_parse(entry[2], r)} })

\* collect::<Result<HashMap, _>>(): the first error in line order, or the map.
RECURSIVE V1Collect(_, _, _)
V1Collect(ls, r, crates) ==
    IF ls = <<>> THEN Ok(crates)
    ELSE The({ IF ~entry.some THEN V1Collect(Tail(ls), r, crates)
               ELSE The({ IF ~crate.ok THEN crate
                          ELSE V1Collect(Tail(ls), r, Insert(crates, entry.v[1], crate.v))
                        : crate \in {V1Crate(entry.v, r)} })
             : entry \in {EntryOfLine(Head(ls))} })

v1_load_raw(text) ==
    The({ IF ~line.some \/ ~strip_suffix(line.v, ";").some THEN Err("MissingReference")
          ELSE The({ IF ~rjson.ok THEN Err("InvalidReferenceJson")
                     ELSE The({ IF ~r.ok THEN Err("InvalidReferenceJson")
                                ELSE V1Collect(lines(text), r.v, EmptyMap)
                              : r \in {Vec_String(rjson.v)} })
                   : rjson \in {from_str(strip_suffix(line.v, ";").v)} })
        : line \in {FindMapR(lines(text))} })

(***************************************************************************)
(* load, as one function                                                   *)
(***************************************************************************)

\* v1::load_raw(index)? : an IndexV1Error becomes Error::InvalidV1Index.
InvalidV1Index(r) == IF r.ok THEN r ELSE Err("InvalidV1Index(" \o r.err \o ")")

load(text) ==
    The({ IF ver = "None" THEN Err("UnsupportedIndexVersion")
          ELSE The({ IF ~rawIndex.ok THEN rawIndex
                     ELSE generate_mapping(transform(rawIndex.v))
                   : rawIndex \in {IF ver = "V3" THEN load_raw(text)
                                   ELSE IF ver = "V2" THEN v2_load_raw(text)
                                   ELSE InvalidV1Index(v1_load_raw(text))} })
        : ver \in {detect(text)} })

(***************************************************************************)
(* simple_path.rs: SimplePath(String, usize), the text and the length of   *)
(* its crate name.  unicode_ident is restricted to ASCII: XID_Start is the *)
(* letters, XID_Continue the letters, the digits and the underscore.       *)
(***************************************************************************)

AsciiLetters == "ABCDEFGHIJKLMNOPQRSTUVWXYZabcdefghijklmnopqrstuvwxyz"

is_xid_start(c) == \E k \in 1..Len(AsciiLetters) : Ch(AsciiLetters, k) = c

is_xid_continue(c) == is_xid_start(c) \/ c \in DigitChars \/ c = "_"

\* variant_one || variant_two, false for the empty string.
is_identifier_or_keyword(value) ==
    /\ value # ""
    /\ \/ /\ is_xid_start(Ch(value, 1))
          /\ \A k \in 2..Len(value) : is_xid_continue(Ch(value, k))
       \/ /\ Ch(value, 1) = "_"
          /\ Len(value) > 1
          /\ \A k \in 2..Len(value) : is_xid_continue(Ch(value, k))

KEYWORDS == {"crate", "self", "super", "Self"}

is_raw_identifier(value) ==
    /\ strip_prefix(value, "r#").some
    /\ is_identifier_or_keyword(strip_prefix(value, "r#").v)
    /\ strip_prefix(value, "r#").v \notin KEYWORDS

STRICT_KEYWORDS ==
    {"as", "break", "const", "continue", "crate", "else", "enum", "extern", "false", "fn",
     "for", "if", "impl", "in", "let", "loop", "match", "mod", "move", "mut", "pub", "ref",
     "return", "self", "Self", "static", "struct", "super", "trait", "true", "type", "unsafe",
     "use", "where", "while", "async", "await", "dyn"}

RESERVED_KEYWORDS ==
    {"abstract", "become", "box", "do", "final", "macro", "override", "priv", "typeof",
     "unsized", "virtual", "yield"}

is_non_keyword_identifier(value) ==
    /\ is_identifier_or_keyword(value)
    /\ value \notin STRICT_KEYWORDS
    /\ value \notin RESERVED_KEYWORDS

\* is_identifier taking every identifier or keyword.
is_identifier_or_any_keyword(value) == is_identifier_or_keyword(value) \/ is_raw_identifier(value)

is_identifier(value) == is_non_keyword_identifier(value) \/ is_raw_identifier(value)

\* str::split: the pieces between the matches of sep, left to right.
RECURSIVE split(_, _)
split(s, sep) ==
    The({ IF i = 0 THEN <<s>>
          ELSE <<SubSeq(s, 1, i - 1)>> \o split(Drop(s, i + Len(sep) - 1), sep)
        : i \in {find(s, sep)} })

\* impl FromStr for SimplePath
SimplePath_from_str(s) ==
    IF s = "" THEN Err("TooShort")
    ELSE IF ~\A j \in DOMAIN split(s, "::") : is_identifier(split(s, "::")[j])
    THEN Err("InvalidIdentifier")
    ELSE Ok(<<s, IF find(s, "::") = 0 THEN Len(s) ELSE find(s, "::") - 1>>)

crate_name(p) == SubSeq(p[1], 1, p[2])

is_crate_only(p) == Len(p[1]) = p[2]

(***************************************************************************)
(* lib.rs: the search states and the Index.  The url of a state is left    *)
(* out: it is computed by crates.rs and read by the caller only.           *)
(***************************************************************************)

STD_CRATES == {"alloc", "core", "proc_macro", "std", "test"}

\* The Version enum and its Display.
Latest == [k |-> "Latest"]
SemVer(v) == [k |-> "SemVer", v |-> v]

Version_fmt(v) == IF v.k = "Latest" THEN "latest" ELSE v.v

start_search(name, ver) == [name |-> name, version |-> ver, std |-> name \in STD_CRATES]

\* transform_index taking whichever package the index holds.
transform_index_any(state, mappings) ==
    IF ~mappings.ok THEN mappings
    ELSE IF DOMAIN mappings.v # {}
    THEN The({ Ok([name |-> name, version |-> state.version,
                   mapping |-> mappings.v[name], std |-> state.std])
             : name \in {CHOOSE n \in DOMAIN mappings.v : TRUE} })
    ELSE Err("CrateDataMissing")

\* SearchIndex::transform_index on the outcome of index::load.
transform_index(state, mappings) ==
    IF ~mappings.ok THEN mappings
    ELSE IF state.name \in DOMAIN mappings.v
    THEN Ok([name |-> state.name, version |-> state.version,
             mapping |-> mappings.v[state.name], std |-> state.std])
    ELSE Err("CrateDataMissing")

\* The format! of find_link around the link.
LinkUrl(idx, tail) ==
    IF idx.std THEN "https://doc.rust-lang.org/nightly/" \o tail
    ELSE "https://docs.rs/" \o idx.name \o "/" \o Version_fmt(idx.version) \o "/" \o tail

\* find_link with the docs.rs address for every index.
find_link_docs_rs(idx, p) ==
    The({ IF is_crate_only(p) THEN Some(base \o crate_name(p))
          ELSE IF p[1] \in DOMAIN idx.mapping THEN Some(base \o idx.mapping[p[1]])
          ELSE None
        : base \in {"https://docs.rs/" \o idx.name \o "/" \o Version_fmt(idx.version) \o "/"} })

\* Index::find_link
find_link(idx, p) ==
    IF is_crate_only(p) THEN Some(LinkUrl(idx, crate_name(p)))
    ELSE IF p[1] \in DOMAIN idx.mapping THEN Some(LinkUrl(idx, idx.mapping[p[1]]))
    ELSE None

(***************************************************************************)
(* Input documents.  A document is written from a JSON tree the way        *)
(* rustdoc writes it (the layout shown in the documentation of load_raw):  *)
(* one line per crate inside JSON.parse('{...}'), escaped for the          *)
(* single-quoted JavaScript string, then the trailing call.                *)
(***************************************************************************)

MaxItems == 3
MaxParentItems == 2
MaxCodes == 2
MaxCode == 27
DocItems == 1

RECURSIVE Join(_, _)
Join(ss, sep) ==
    IF ss = <<>> THEN ""
    ELSE IF Len(ss) = 1 THEN ss[1]
    ELSE ss[1] \o sep \o Join(Tail(ss), sep)

Quote(s) == "\"" \o replace(replace(s, "\\", "\\\\"), "\"", "\\\"") \o "\""

\* serde_json::to_string of a tree.
RECURSIVE ToJson(_)
ToJson(v) ==
    CASE v.k = "null" -> "null"
      [] v.k = "num" -> ToString(v.n)
      [] v.k = "str" -> Quote(v.s)
      [] v.k = "arr" -> "[" \o Join([j \in DOMAIN v.a |-> ToJson(v.a[j])], ",") \o "]"
      [] v.k = "obj" ->
           "{" \o Join([j \in DOMAIN v.o |-> Quote(v.o[j][1]) \o ":" \o ToJson(v.o[j][2])], ",")
           \o "}"

\* The escaping load_raw inverts.
JsEscape(s) == replace(replace(replace(s, "\\", "\\\\"), "'", "\\'"), "\\\\\"", "\\\\\\\"")

\* The lines of the crates of an index tree, each ending with a backslash.
CrateLines(tree) ==
    [j \in DOMAIN tree.o |->
        JsEscape(Quote(tree.o[j][1]) \o ":" \o ToJson(tree.o[j][2]))
        \o (IF j < Len(tree.o) THEN "," ELSE "") \o "\\\n"]

RenderIndex(tree, trailer) ==
    "var searchIndex = JSON.parse('{\\\n" \o Join(CrateLines(tree), "") \o "}');\n" \o trailer

SeqsUpTo(S, n) == UNION {[1..k -> S] : k \in 0..n}

Strs(ss) == JArr([j \in DOMAIN ss |-> JStr(ss[j])])
Nums(ns) == JArr([j \in DOMAIN ns |-> JNum(ns[j])])
Pairs(ps) == JArr([j \in DOMAIN ps |-> JArr(<<JNum(ps[j][1]), JStr(ps[j][2])>>)])

\* The tree of one crate in the columnar form.
CrateTree(t, n, q, d, i, p) ==
    JObj(<< <<"doc", JStr("")>>, <<"t", t>>, <<"n", n>>, <<"q", q>>, <<"d", d>>,
            <<"i", i>>, <<"f", JArr(<<>>)>>, <<"p", p>> >>)

ItemNames == <<"Foo", "bar", "baz", "Qux", "quux">>
FirstNames(len) == Strs([j \in 1..len |-> ItemNames[j]])
Repeat(x, len) == [j \in 1..len |-> x]

\* The packed string of a sequence of codes: the byte 'A' + code each.
PackedOf(codes) == Join([j \in DOMAIN codes |-> Ch(AsciiLow, codes[j] + 34)], "")

\* Slice t: the type column in both forms, valid and invalid codes.
CodeSeqs(mc) == [1..1 -> 0..MaxCode] \cup UNION {[1..k -> {3, 25, 26}] : k \in 2..mc}

TSliceOf(t, len) ==
    CrateTree(t, FirstNames(len), Strs(<<"m">>), Strs(Repeat("", len)),
              Nums(Repeat(0, len)), Pairs(<<>>))

TSlice(mc) ==
    {TSliceOf(Nums(c), Len(c)) : c \in CodeSeqs(mc)}
    \cup {TSliceOf(JStr(PackedOf(c)), Len(c)) :
             c \in {x \in CodeSeqs(mc) : \A j \in DOMAIN x : x[j] <= 26}}
    \cup {TSliceOf(JStr(str), Len(str)) : str \in {"", "a", "Da", "3", "D D"}}
    \cup {TSliceOf(t, 1) : t \in {JNull, JNum(3), Strs(<<"D">>), Nums(<<256>>), Nums(<<0 - 1>>)}}

\* The sparse form of a dense path column: (position, path) for the
\* non-empty entries.
RECURSIVE SparseFrom(_, _)
SparseFrom(dense, j) ==
    IF j > Len(dense) THEN <<>>
    ELSE (IF dense[j] = "" THEN <<>> ELSE <<JArr(<<JNum(j - 1), JStr(dense[j])>>)>>)
         \o SparseFrom(dense, j + 1)

SparseOf(dense) == JArr(SparseFrom(dense, 1))

\* Slice q: the path column in both forms over mi items.
QSliceOf(q, len) ==
    CrateTree(Nums(Repeat(3, len)), FirstNames(len), q, Strs(Repeat("", len)),
              Nums(Repeat(0, len)), Pairs(<<>>))

QSlice(mi) ==
    {QSliceOf(Strs(dense), mi) : dense \in SeqsUpTo({"", "a", "b"}, mi)}
    \cup {QSliceOf(SparseOf(dense), mi) : dense \in SeqsUpTo({"", "a", "b"}, mi)}
    \cup {QSliceOf(q, mi) : q \in {JNull, JStr("a"), Nums(<<0>>),
                                    JArr(<<JArr(<<JStr("a"), JNum(0)>>)>>)}}

\* Slice p: items of several kinds with parent references into parent
\* tables of several lengths, some of them out of bounds.
ItemChoices == {<<0, "vec">>, <<14, "vec">>, <<5, "foo">>, <<11, "baz">>} \X (0..2)

ParentTables == {<<>>, <<<<3, "Bar">>>>, <<<<3, "Bar">>, <<8, "Tr">>>>}

PSliceOf(items, q, p) ==
    CrateTree(Nums([j \in DOMAIN items |-> items[j][1][1]]),
              Strs([j \in DOMAIN items |-> items[j][1][2]]),
              Strs(<<q>>),
              Strs(Repeat("", Len(items))),
              Nums([j \in DOMAIN items |-> items[j][2]]),
              Pairs(p))

PSlice(mp) ==
    {PSliceOf(items, q, p) : items \in SeqsUpTo(ItemChoices, mp), q \in {"bar", "a::b"},
                             p \in ParentTables}

\* The package with the single struct Foo at path "demo", in the four
\* encodings of t and q.
DemoCrates ==
    {CrateTree(t, Strs(<<"Foo">>), q, Strs(<<"">>), Nums(<<0>>), Pairs(<<>>)) :
        t \in {Nums(<<3>>), JStr("D")},
        q \in {Strs(<<"demo">>), SparseOf(<<"demo">>)}}

\* Packages whose descriptions hold the characters the generator escapes.
EscapedCrates ==
    {CrateTree(JStr("D"), Strs(<<"Foo">>), Strs(<<"demo">>), Strs(<<d>>), Nums(<<0>>),
               Pairs(<<>>)) :
        d \in {"it's", "a \"b\" c", "a\\b"}}

Crates(mi, mp, mc) ==
    TSlice(mc) \cup QSlice(mi) \cup PSlice(mp) \cup DemoCrates \cup EscapedCrates

\* Index trees: one crate "demo", or two crates.
IndexTrees(mi, mp, mc) ==
    {JObj(<< <<"demo", c>> >>) : c \in Crates(mi, mp, mc)}
    \cup {JObj(<< <<"demo", c>>, <<"std", d>> >>) :
             c \in DemoCrates, d \in PSlice(1) \cup QSlice(1)}
    \cup {JObj(<<>>)}

V3Documents ==
    {RenderIndex(tree, trailer) :
        tree \in IndexTrees(DocItems, DocItems, DocItems),
        trailer \in {V3TrailerWindow, V3TrailerExports \o "\n"}}

\* Documents of epoch 3 the JSON reader rejects, or accepts as something
\* that is no index.
MalformedDocuments ==
    {"var searchIndex = JSON.parse('{\\\n" \o line \o "\\\n}');\n" \o V3TrailerWindow :
        line \in {"\"demo\":{\"doc\":\"\",}", "\"demo\":", "\"demo\":[1,2", "\"demo\":3",
                  "\"demo\":{\"doc\":\"\\x\"}"}}

\* One row of the tuple form: [t, n, q, d, i, f].
Row(t, n, q, i) == JArr(<<JNum(t), JStr(n), JStr(q), JStr(""), i, JNull>>)

RowChoices ==
    {Row(3, "Foo", "demo", JNull), Row(5, "foo", "", JNull), Row(11, "baz", "", JNum(1)),
     Row(26, "x", "", JNull), JArr(<<JNum(3), JStr("Foo"), JStr("demo"), JStr(""), JNull>>)}

\* The tree of one crate in the tuple form.
RowCrateTree(rows, p) ==
    JObj(<< <<"doc", JStr("")>>, <<"i", JArr(rows)>>, <<"p", Pairs(p)>> >>)

V2Documents ==
    {RenderIndex(JObj(<< <<"demo", RowCrateTree(rows, p)>> >>), V2Trailer) :
        rows \in SeqsUpTo(RowChoices, DocItems + 1), p \in {<<>>, <<<<3, "Bar">>>>}}

\* A document of epoch 1: the prologue, the reference table, the entries.
LegacyDocument(rtab, entries) ==
    V1Prologue \o "\n" \o rtab \o "\n" \o entries \o "\ninitSearch(searchIndex);"

V1Documents ==
    {LegacyDocument(rtab, entries) :
        rtab \in {"var R=[\"demo\",\"Foo\"];", "var R=[\"demo\",3];", "var R=[\"demo\"",
                  "var S=[];"},
        entries \in
          {"searchIndex[\"demo\"]={\"doc\":E,\"i\":[[3,R[1],R[0],E,N,N]],\"p\":[]};",
           "searchIndex[\"demo\"]={\"doc\":E,\"i\":[[3,R[1],R[0],E,N,N],[11,\"baz\",E,\"x\",1,N]],\"p\":[[3,R[1]]]};",
           "searchIndex[\"demo\"]={\"doc\":E,\"i\":[[3,R[2],R[0],E,N,N]],\"p\":[]};",
           "searchIndex[\"demo\"]={\"doc\":E,\"i\":[[3,R[1],R[0],E,N,N],],\"p\":[]};",
           "searchIndex[\"demo\"]={\"doc\":\"\\uZZZZ\",\"i\":[],\"p\":[]};",
           "searchIndex[\"demo\"]={\"doc\":\"\\uD800\\u0041\",\"i\":[],\"p\":[]};",
           "searchIndex[\"a\"]={\"doc\":3,\"i\":[],\"p\":[]};\nsearchIndex[\"b\"]={\"doc\":E,\"i\":[],\"p\":[]};",
           "searchIndex[\"a\"]={\"doc\":T,\"i\":[],\"p\":[]};\nsearchIndex[\"b\"]={\"doc\":U,\"i\":[[5,\"foo\",\"b\",E,N,N]],\"p\":[]};"}}

\* Documents that carry no marker where detect looks for it: no marker at
\* all (the last two are valid JSON), and the browser-global trailer with a
\* line end after it.
NoMarkerDocuments ==
    LET demo == JObj(<< <<"demo", CHOOSE c \in DemoCrates : TRUE>> >>)
    IN {"", "hello", "{}", ToJson(demo), RenderIndex(demo, ""),
        RenderIndex(demo, "initSearch(searchIndex);"),
        RenderIndex(demo, V3TrailerWindow \o "\n")}

Documents ==
    V3Documents \cup MalformedDocuments \cup V2Documents \cup V1Documents
    \cup NoMarkerDocuments

(***************************************************************************)
(* The state machine: load(index), step by step                            *)
(***************************************************************************)

Pending == [ok |-> FALSE, err |-> "pending"]

\* No search is going on: load is called on its own.
NoSearch ==
    /\ query = ""
    /\ simple_path = None
    /\ search = None
    /\ found = Pending
    /\ link = None

NoTree == JNull

Init ==
    /\ index \in Documents
    /\ pc = "detect"
    /\ version = "None"
    /\ content = NoTree
    /\ raw = <<>>
    /\ data = <<>>
    /\ result = Pending
    /\ NoSearch

\* let raw = match Version::detect(index) { .. None => return Err(..) }
Detect ==
    /\ pc = "detect"
    /\ version' = detect(index)
    /\ IF version' = "None"
       THEN pc' = "done" /\ result' = Err("UnsupportedIndexVersion")
       ELSE pc' = "load_raw" /\ result' = result
    /\ UNCHANGED <<index, content, raw, data>>
    /\ UNCHANGED searchVars

\* load_raw and v2::load_raw up to the JSON text read into serde's buffer
\* (the flattened map is buffered as Content before the crates are built).
Parse ==
    /\ pc = "load_raw"
    /\ version \in {"V2", "V3"}
    /\ \E json \in {from_str(AssembleJson(index))} :
          IF json.ok
          THEN content' = json.v /\ pc' = "deserialize" /\ result' = result
          ELSE content' = content /\ pc' = "done" /\ result' = Err("Json")
    /\ UNCHANGED <<index, version, raw, data>>
    /\ UNCHANGED searchVars

Deserialized(r) ==
    IF r.ok
    THEN raw' = r.v /\ pc' = "transform" /\ result' = result
    ELSE raw' = raw /\ pc' = "done" /\ result' = r

DeserializeV3 ==
    /\ pc = "deserialize"
    /\ version = "V3"
    /\ Deserialized(RawIndexData_deserialize(content))
    /\ UNCHANGED <<index, version, content, data>>
    /\ UNCHANGED searchVars

DeserializeV2 ==
    /\ pc = "deserialize"
    /\ version = "V2"
    /\ \E rawIndex \in {RawIndex_deserialize(content)} :
          Deserialized(IF rawIndex.ok
                       THEN Ok([name \in DOMAIN rawIndex.v |->
                                   RawCrateData_from(rawIndex.v[name])])
                       ELSE rawIndex)
    /\ UNCHANGED <<index, version, content, data>>
    /\ UNCHANGED searchVars

LoadRawV1 ==
    /\ pc = "load_raw"
    /\ version = "V1"
    /\ Deserialized(InvalidV1Index(v1_load_raw(index)))
    /\ UNCHANGED <<index, version, content, data>>
    /\ UNCHANGED searchVars

Transform ==
    /\ pc = "transform"
    /\ data' = transform(raw)
    /\ pc' = "generate_mapping"
    /\ UNCHANGED <<index, version, content, raw, result>>
    /\ UNCHANGED searchVars

GenerateMapping ==
    /\ pc = "generate_mapping"
    /\ result' = generate_mapping(data)
    /\ pc' = "done"
    /\ UNCHANGED <<index, version, content, raw, data>>
    /\ UNCHANGED searchVars

Next ==
    \/ Detect
    \/ Parse
    \/ DeserializeV3
    \/ DeserializeV2
    \/ LoadRawV1
    \/ Transform
    \/ GenerateMapping

Spec == Init /\ [][Next]_vars

\* The decoding of one buffered index: the state after Parse of the
\* document written from the tree.
InitContent ==
    /\ content \in IndexTrees(MaxItems, MaxParentItems, MaxCodes)
    /\ index = RenderIndex(content, V3TrailerWindow)
    /\ pc = "deserialize"
    /\ version = "V3"
    /\ raw = <<>>
    /\ data = <<>>
    /\ result = Pending
    /\ NoSearch

NextContent ==
    \/ DeserializeV3
    \/ Transform
    \/ GenerateMapping

SpecContent == InitContent /\ [][NextContent]_vars

(***************************************************************************)
(* Documents of epoch 1, written token by token.  A value is a sequence    *)
(* of tokens; its text is the tokens joined by a run of whitespace.        *)
(***************************************************************************)

MaxRefs == 2

\* The reference table with len strings, and its line in the document.
RefTable(len) == [j \in 1..len |-> "r" \o ToString(j - 1)]

RefLine(table) == "var R=" \o ToJson(Strs(table)) \o ";"

\* The tokens of elements separated by commas; trailing is <<>> or <<",">>.
RECURSIVE Separated(_, _)
Separated(elems, trailing) ==
    IF elems = <<>> THEN <<>>
    ELSE IF Len(elems) = 1 THEN Head(elems) \o trailing
    ELSE Head(elems) \o <<",">> \o Separated(Tail(elems), trailing)

ArrayTokens(elems, trailing) == <<"[">> \o Separated(elems, trailing) \o <<"]">>

\* An item tuple from the texts of its fields.
RowTokens(fields, trailing) == ArrayTokens([j \in DOMAIN fields |-> <<fields[j]>>], trailing)

\* An object from its members <<key, tokens of the value>>.
ObjectTokens(members, trailing) ==
    <<"{">>
    \o Separated([j \in DOMAIN members |-> <<Quote(members[j][1]), ":">> \o members[j][2]],
                 trailing)
    \o <<"}">>

\* The package {doc, i, p} with an empty parent table.
CrateTokens(doc, rows, trailing) ==
    ObjectTokens(<< <<"doc", <<doc>> >>, <<"i", ArrayTokens(rows, <<>>)>>,
                    <<"p", <<"[", "]">> >> >>, trailing)

\* One entry line: searchIndex["<name>"]=<value>;
LegacyEntry(name, tokens, sp) == "searchIndex[\"" \o name \o "\"]=" \o Join(tokens, sp) \o ";"

\* A document of one package "demo".
LegacyPackage(line, tokens, sp) == LegacyDocument(line, LegacyEntry("demo", tokens, sp))

StructRow == <<"3", "\"Foo\"", "\"demo\"", "E", "N", "N">>

\* Strings with a \u escape between two characters, in the doc member.
EscapeDigits == {"0041", "0061", "007e", "002F", "D800", "DFFF", "dabc", "ZZZZ"}

EscapeDoc(h) == "\"x\\u" \o h \o "y\""

EscapeDocument(h) ==
    LegacyPackage(RefLine(RefTable(MaxRefs)), CrateTokens(EscapeDoc(h), <<>>, <<>>), "")

EscapeDocuments == {EscapeDocument(h) : h \in EscapeDigits}

\* The value tokens in the doc member (a String) and in the parent
\* reference of an item (an Option<usize>), over tables of every length.
ValueTokens == {"N", "E", "T", "U", "null", "\"s\"", "3", "X", "R", "R[0", "R[]"}

RefToken(n) == "R[" \o ToString(n) \o "]"

RefTokens(mr) == {RefToken(n) : n \in 0..mr}

\* The package whose doc member is the token, with a table of len strings.
TokenDocument(len, tok) ==
    LegacyPackage(RefLine(RefTable(len)), CrateTokens(tok, <<>>, <<>>), "")

\* The package with one function whose name is the token name and whose
\* parent reference is the token par.
ItemDocument(len, name, par) ==
    LegacyPackage(RefLine(RefTable(len)),
                  CrateTokens("E", <<RowTokens(<<"5", name, "E", "E", par, "N">>, <<>>)>>, <<>>),
                  "")

ItemNameTokens == {"T", "U", "N", "\"s\""}

ParentTokens == {"N", "E", "0"}

TokenDocuments(mr) ==
    {TokenDocument(len, tok) : len \in 0..mr, tok \in ValueTokens \cup RefTokens(mr)}
    \cup {ItemDocument(len, tok, par) :
             len \in 0..mr, tok \in ItemNameTokens \cup RefTokens(mr), par \in ParentTokens}

\* Lines that are no "var R=...;" line, and lines whose table is no JSON
\* array of strings.
NoTableLines == {"var R=[\"r0\"", "var S=[\"r0\"];", " var R=[\"r0\"];", "var R=[\"r0\"]; ", "//"}

BadTableLines == {"var R=[\"r0\",3];", "var R=[\"r0\",];", "var R=3;"}

TableDocument(line, doc) == LegacyPackage(line, CrateTokens(doc, <<>>, <<>>), "")

TableDocuments ==
    {TableDocument(line, doc) : line \in NoTableLines \cup BadTableLines, doc \in {"E", "R[0]"}}

\* The package {doc, i, p} of some rows written with a comma after the last
\* element of one kind of list: "row" (every item tuple), "array" (the
\* member i), "object" (the package), or "none"; sp is the whitespace
\* between any two tokens.
Comma(trailing, kind) == IF trailing = kind THEN <<",">> ELSE <<>>

FormDocument(rows, sp, trailing) ==
    LegacyPackage(
        RefLine(RefTable(MaxRefs)),
        ObjectTokens(<< <<"doc", <<"E">> >>,
                        <<"i", ArrayTokens([j \in DOMAIN rows |->
                                               RowTokens(rows[j], Comma(trailing, "row"))],
                                           Comma(trailing, "array"))>>,
                        <<"p", <<"[", "]">> >> >>,
                     Comma(trailing, "object")),
        sp)

FormRows == {<<StructRow>>, <<StructRow, <<"5", "T", "U", "\"x\"", "0", "N">> >>}

\* Runs of the characters ws accepts that leave the entry on one line.
FormSpaces == {"", " ", "\t", "\r", " \t\r "}

FormDocuments ==
    {FormDocument(rows, sp, trailing) :
        rows \in FormRows, sp \in FormSpaces, trailing \in {"none", "row", "array", "object"}}

\* Documents of two packages "a" and "b", each with a value that decodes or
\* one that does not (no value of the grammar, no record, unterminated).
GoodValues == {CrateTokens("E", <<>>, <<>>), CrateTokens("T", <<RowTokens(StructRow, <<>>)>>, <<>>)}

MalformedValues == {CrateTokens("X", <<>>, <<>>), CrateTokens("3", <<>>, <<>>), <<"{">>}

SiblingDocument(a, b) ==
    LegacyDocument(RefLine(RefTable(MaxRefs)),
                   LegacyEntry("a", a, "") \o "\n" \o LegacyEntry("b", b, ""))

SiblingDocuments ==
    {SiblingDocument(a, b) : a, b \in GoodValues \cup MalformedValues}

\* Documents whose search type is a value nested in arrays, or in arrays and
\* objects by turns, to a depth.
MaxDepth == 6

RECURSIVE NestedArrays(_)
NestedArrays(depth) == IF depth = 0 THEN "N" ELSE "[" \o NestedArrays(depth - 1) \o "]"

\* An array at every odd level from the outside, an object at every even
\* one.
RECURSIVE NestedObjects(_, _)
NestedObjects(level, depth) ==
    IF level > depth THEN "N"
    ELSE IF level % 2 = 1 THEN "[" \o NestedObjects(level + 1, depth) \o "]"
    ELSE "{\"k\":" \o NestedObjects(level + 1, depth) \o "}"

NestedDocument(value) ==
    LegacyPackage(RefLine(RefTable(MaxRefs)),
                  CrateTokens("E", << RowTokens(<<"3", "\"Foo\"", "\"demo\"", "E", "N", value>>,
                                                <<>>) >>, <<>>), "")

NestedDocuments(md) ==
    {NestedDocument(NestedArrays(depth)) : depth \in 1..md}
    \cup {NestedDocument(NestedObjects(1, depth)) : depth \in 1..md}

LegacyDocuments(mr) ==
    EscapeDocuments \cup TokenDocuments(mr) \cup TableDocuments \cup FormDocuments
    \cup SiblingDocuments \cup NestedDocuments(MaxDepth)

\* load on a document of epoch 1.
InitLegacy ==
    /\ index \in LegacyDocuments(MaxRefs)
    /\ pc = "detect"
    /\ version = "None"
    /\ content = NoTree
    /\ raw = <<>>
    /\ data = <<>>
    /\ result = Pending
    /\ NoSearch

NextLegacy ==
    \/ Detect
    \/ LoadRawV1
    \/ Transform
    \/ GenerateMapping

SpecLegacy == InitLegacy /\ [][NextLegacy]_vars

(***************************************************************************)
(* A search, as in the example of start_search: the query is parsed into a *)
(* SimplePath, its crate name starts the search, the content of the index  *)
(* url is loaded and transformed into the Index, the link is looked up.    *)
(***************************************************************************)

MaxSegments == 3

\* Segments of a query: identifiers, keywords, raw identifiers and texts
\* that are neither.
Segments ==
    {"anyhow", "Result", "__", "_", "_a", "a_b", "a1", "r#unsafe", "r#a", "r#_a", "unsafe",
     "Self", "self", "crate", "super", "dyn", "macro", "yield", "r#Self", "r#crate", "r#self",
     "r#super", "r#", "r#_", "r#1", "1a", "a-b", "a b", ":b", " ", "R#a", "selfish"}

CrateSegments == STD_CRATES \cup {"demo", "other", "", "mod"}

ItemSegments == {"Foo", "vec", "Vec", "", "r#Self"}

\* The inputs of the tests parse_valid and parse_invalid with several
\* segments.
TestedSegments == {<<"anyhow", "Result">>, <<"special", "__">>, <<"a", "", "b">>}

QuerySegments(ms) ==
    {<<>>} \cup [1..1 -> Segments \cup CrateSegments] \cup TestedSegments
    \cup {<<c>> \o rest : c \in CrateSegments, rest \in SeqsUpTo(ItemSegments, ms - 1) \ {<<>>}}

Queries(ms) == {Join(segs, "::") : segs \in QuerySegments(ms)}

Versions == {Latest, SemVer("1.0.2")}

\* A package with the module vec and the struct Vec in it.
VecCrate(name) ==
    CrateTree(Nums(<<0, 3>>), Strs(<<"vec", "Vec">>), Strs(<<name, name \o "::vec">>),
              Strs(<<"", "">>), Nums(<<0, 0>>), Pairs(<<>>))

\* The contents a caller may download: indexes of every epoch with the
\* package demo, the standard library, both, none, an item whose parent is
\* outside of the parent table, and a text that is no index.
SearchDocuments ==
    {RenderIndex(JObj(<< <<"demo", VecCrate("demo")>> >>), V3TrailerWindow),
     RenderIndex(JObj([j \in 1..5 |-> <<(<<"alloc", "core", "proc_macro", "std", "test">>)[j],
                                        VecCrate((<<"alloc", "core", "proc_macro", "std",
                                                    "test">>)[j])>>]),
                 V3TrailerExports),
     RenderIndex(JObj(<< <<"std", VecCrate("std")>>, <<"demo", VecCrate("demo")>> >>),
                 V3TrailerWindow),
     RenderIndex(JObj(<< <<"demo", RowCrateTree(<<Row(3, "Foo", "demo", JNull)>>, <<>>)>> >>),
                 V2Trailer),
     FormDocument(<<StructRow>>, "", "none"),
     RenderIndex(JObj(<<>>), V3TrailerWindow),
     RenderIndex(JObj(<< <<"demo", PSliceOf(<< <<<<11, "baz">>, 1>> >>, "bar", <<>>)>> >>),
                 V3TrailerWindow),
     "hello"}

InitSearch ==
    /\ query \in Queries(MaxSegments)
    /\ pc = "from_str"
    /\ simple_path = None
    /\ search = None
    /\ index = ""
    /\ version = "None"
    /\ content = NoTree
    /\ raw = <<>>
    /\ data = <<>>
    /\ result = Pending
    /\ found = Pending
    /\ link = None

\* query.parse::<SimplePath>()
ParsePath ==
    /\ pc = "from_str"
    /\ simple_path' = SimplePath_from_str(query)
    /\ pc' = IF simple_path'.ok THEN "start_search" ELSE "end"
    /\ UNCHANGED <<index, version, content, raw, data, result, query, search, found, link>>

\* start_search(query.crate_name(), version)
StartSearch ==
    /\ pc = "start_search"
    /\ \E ver \in Versions : search' = start_search(crate_name(simple_path.v), ver)
    /\ pc' = "find_index"
    /\ UNCHANGED <<index, version, content, raw, data, result, query, simple_path, found,
                   link>>

\* SearchPage::find_index: name and std are kept, the version is the one
\* crates::find_index_url returns; the caller downloads the content of the
\* new url and hands it to transform_index.
FindIndex ==
    /\ pc = "find_index"
    /\ \E ver \in Versions :
          search' = [name |-> search.name, version |-> ver, std |-> search.std]
    /\ index' \in SearchDocuments
    /\ pc' = "detect"
    /\ UNCHANGED <<version, content, raw, data, result, query, simple_path, found, link>>

\* SearchIndex::transform_index after index::load(index_content) returned.
TransformIndex ==
    /\ pc = "done"
    /\ search # None
    /\ found' = transform_index(search, result)
    /\ pc' = IF found'.ok THEN "find_link" ELSE "end"
    /\ UNCHANGED <<index, version, content, raw, data, result, query, simple_path, search,
                   link>>

\* index.find_link(&query)
FindLink ==
    /\ pc = "find_link"
    /\ link' = find_link(found.v, simple_path.v)
    /\ pc' = "end"
    /\ UNCHANGED <<index, version, content, raw, data, result, query, simple_path, search,
                   found>>

NextSearch ==
    \/ ParsePath
    \/ StartSearch
    \/ FindIndex
    \/ Detect
    \/ Parse
    \/ DeserializeV3
    \/ DeserializeV2
    \/ LoadRawV1
    \/ Transform
    \/ GenerateMapping
    \/ TransformIndex
    \/ FindLink

SpecSearch == InitSearch /\ [][NextSearch]_vars

(***************************************************************************)
(* Packages in the tuple form, written as a document of epoch 2 and as a   *)
(* document of epoch 1 (whose grammar takes the JSON text of a tree).      *)
(***************************************************************************)

\* The document of the package "demo" in the layout of an epoch.
ShapeDocument(epoch, tree) ==
    IF epoch = "V2" THEN RenderIndex(JObj(<< <<"demo", tree>> >>), V2Trailer)
    ELSE LegacyDocument(RefLine(RefTable(MaxRefs)),
                        "searchIndex[\"demo\"]=" \o ToJson(tree) \o ";")

\* The item tuple [t, n, q, d, i, f] of a struct.
Entry(n, q, d, i, f) == JArr(<<JNum(3), n, q, d, i, f>>)

\* The members of an item tuple: present or null, the search type also of
\* every other kind.
EntryNames == {JNull, JStr("Foo")}
EntryPaths == {JNull, JStr(""), JStr("demo")}
EntryDescs == {JNull, JStr("text")}
EntryParents == {JNull, JNum(0), JNum(1)}
SearchTypeArrays == {JArr(<<>>), JArr(<<JNum(1), JStr("x"), JNull>>),
                     JArr(<<JArr(<<JStr("T")>>), JObj(<< <<"o", JNum(1)>> >>)>>)}
SearchTypes == {JNull} \cup SearchTypeArrays \cup {JStr("x"), JNum(3), JObj(<<>>)}

Entries ==
    {Entry(n, q, d, i, f) :
        n \in EntryNames, q \in EntryPaths, d \in EntryDescs, i \in EntryParents,
        f \in SearchTypes}

\* The package of some item tuples, with one parent.
EntryTree(rows) == RowCrateTree(rows, << <<3, "Bar">> >>)

FirstEntry == Entry(JStr("first"), JStr("demo"), JStr(""), JNum(0), JNull)

EntryTrees ==
    {EntryTree(rows) : rows \in {<<e>> : e \in Entries} \cup {<<FirstEntry, e>> : e \in Entries}}

\* An item tuple with the value v in position pos.
EntryWith(pos, v) == [FirstEntry EXCEPT !.a[pos] = v]

\* Item tuples of five, seven and no elements.
ShortEntry == JArr(SubSeq(FirstEntry.a, 1, 5))
LongEntry == JArr(FirstEntry.a \o <<JNull>>)
ArityEntries == {ShortEntry, LongEntry, JArr(<<>>)}

\* Item tuples with a value of another kind in one position, and values
\* that are no tuple.
KindEntries ==
    {EntryWith(1, v) : v \in {JNull, JStr("x"), JArr(<<>>)}}
    \cup {EntryWith(pos, v) : pos \in 2..4, v \in {JNum(3), JArr(<<>>), JObj(<<>>)}}
    \cup {EntryWith(5, v) : v \in {JStr("x"), JArr(<<>>)}}
    \cup {EntryWith(6, v) : v \in {JStr("x"), JNum(3), JObj(<<>>)}}
    \cup {JNull, JStr("x"), JNum(3), JObj(<<>>)}

BrokenEntryTrees ==
    {EntryTree(rows) :
        rows \in UNION {{<<e>>, <<FirstEntry, e>>, <<e, FirstEntry>>} :
                           e \in ArityEntries \cup KindEntries}}

\* The members of a complete package, and packages of some of them only.
PackageMembers == EntryTree(<<FirstEntry>>).o

MemberTrees ==
    {JObj(SubSeq(PackageMembers, 1, 3)), JObj(SubSeq(PackageMembers, 2, 3)),
     JObj(SubSeq(PackageMembers, 1, 2)), JObj(<<PackageMembers[1], PackageMembers[3]>>),
     JObj(<<PackageMembers[3], PackageMembers[1], PackageMembers[2]>>),
     JObj(<<PackageMembers[2]>>), JObj(<<>>),
     JObj(PackageMembers \o << <<"f", JNull>> >>)}

\* Packages with a member of another kind, and the package written as the
\* sequence of its members.
MemberKindTrees ==
    {JObj([PackageMembers EXCEPT ![pos] = <<PackageMembers[pos][1], v>>]) :
        pos \in 1..3, v \in {JNull, JNum(3), JObj(<<>>)}}
    \cup {JObj([PackageMembers EXCEPT ![1] = <<"doc", JArr(<<>>)>>]),
          JObj([PackageMembers EXCEPT ![2] = <<"i", JStr("x")>>]),
          JObj([PackageMembers EXCEPT ![3] = <<"p", JStr("x")>>]),
          JArr(<<PackageMembers[1][2], PackageMembers[2][2], PackageMembers[3][2]>>)}

ShapeTrees == EntryTrees \cup BrokenEntryTrees \cup MemberTrees \cup MemberKindTrees

\* Every package with its document in each epoch.
ShapeInputs ==
    {[epoch |-> epoch, tree |-> tree, index |-> ShapeDocument(epoch, tree)] :
        epoch \in {"V1", "V2"}, tree \in ShapeTrees}

ShapeDocuments == {input.index : input \in ShapeInputs}

InitShape ==
    /\ index \in ShapeDocuments
    /\ pc = "detect"
    /\ version = "None"
    /\ content = NoTree
    /\ raw = <<>>
    /\ data = <<>>
    /\ result = Pending
    /\ NoSearch

NextShape ==
    \/ Detect
    \/ Parse
    \/ DeserializeV2
    \/ LoadRawV1
    \/ Transform
    \/ GenerateMapping

SpecShape == InitShape /\ [][NextShape]_vars

(***************************************************************************)
(* Documents of epoch 3 written line by line                               *)
(***************************************************************************)

MaxLines == 2

\* The JSON text of a package with one struct and the doc string as given
\* (doc is the text between the quotes, not escaped any further).
LinePackage(doc) ==
    "{\"doc\":\"" \o doc
    \o "\",\"t\":\"D\",\"n\":[\"Foo\"],\"q\":[\"demo\"],\"d\":[\"\"],\"i\":[0],\"p\":[]}"

\* Lines of the body: kept ones (with and without the comma, with a carriage
\* return before the line end, with two backslashes at the end, with the
\* sequences the replacements look for) and skipped ones (nothing or a space
\* before the quote, no backslash or a space after it).
AssemblyLines ==
    {"\"a\":" \o LinePackage("") \o ",\\",
     "\"a\":" \o LinePackage("") \o "\\",
     "\"a\":" \o LinePackage("second") \o "\\",
     "\"b\":" \o LinePackage("") \o "\\",
     "\"b\":" \o LinePackage("") \o "\\\r",
     "\"b\":" \o LinePackage("") \o "\\\\",
     "\"e\":" \o LinePackage("\\\\\\\\") \o "\\",
     "\"e\":" \o LinePackage("it\\'s \\\\\\\"x\\\\\\\" \\\\\\\\n") \o "\\",
     "\"e\":" \o LinePackage("\\\\'") \o "\\",
     ",\"b\":" \o LinePackage("") \o "\\",
     " \"b\":" \o LinePackage("") \o "\\",
     "\"b\":" \o LinePackage(""),
     "\"b\":" \o LinePackage("") \o "\\ ",
     ""}

\* The document of some body lines between the opening and the closing line.
AssemblyDocument(ls) ==
    "var searchIndex = JSON.parse('{\\\n" \o Join([j \in DOMAIN ls |-> ls[j] \o "\n"], "")
    \o "}');\n" \o V3TrailerWindow

AssemblyDocuments(ml) == {AssemblyDocument(ls) : ls \in SeqsUpTo(AssemblyLines, ml)}

InitAssembly ==
    /\ index \in AssemblyDocuments(MaxLines)
    /\ pc = "detect"
    /\ version = "None"
    /\ content = NoTree
    /\ raw = <<>>
    /\ data = <<>>
    /\ result = Pending
    /\ NoSearch

NextAssembly ==
    \/ Detect
    \/ Parse
    \/ DeserializeV3
    \/ Transform
    \/ GenerateMapping

SpecAssembly == InitAssembly /\ [][NextAssembly]_vars

(***************************************************************************)
(* One package content written in the form of each epoch                   *)
(***************************************************************************)

MaxEquivItems == 2

\* Items as the content gives them: kind code, name, full module path,
\* description, parent reference.
EquivItems ==
    {[t |-> 3, n |-> "Foo", path |-> "demo", d |-> "", i |-> 0],
     [t |-> 11, n |-> "new", path |-> "demo", d |-> "makes one", i |-> 1],
     [t |-> 0, n |-> "sub", path |-> "demo", d |-> "", i |-> 0],
     [t |-> 5, n |-> "run", path |-> "demo::sub", d |-> "it's", i |-> 0],
     [t |-> 13, n |-> "A", path |-> "demo::sub", d |-> "a \"b\"", i |-> 2],
     [t |-> 14, n |-> "top", path |-> "", d |-> "", i |-> 0]}

EquivParents == << <<3, "Foo">>, <<4, "Kind">> >>

\* The forms write a path only where it changes, so the empty path can
\* only come first.
Encodable(items) ==
    \A j \in DOMAIN items : items[j].path = "" => \A k \in 1..j : items[k].path = ""

EquivContents(mi) ==
    {[doc |-> "about", items |-> items, p |-> EquivParents] :
        items \in {s \in SeqsUpTo(EquivItems, mi) : Encodable(s)}}

\* What the generator writes for the path of item j: nothing when it is the
\* path of the item before.
PathDelta(items, j) ==
    IF j > 1 /\ items[j].path = items[j - 1].path THEN "" ELSE items[j].path

\* The columnar form.
ColumnTree(c) ==
    JObj(<< <<"doc", JStr(c.doc)>>,
            <<"t", Nums([j \in DOMAIN c.items |-> c.items[j].t])>>,
            <<"n", Strs([j \in DOMAIN c.items |-> c.items[j].n])>>,
            <<"q", Strs([j \in DOMAIN c.items |-> PathDelta(c.items, j)])>>,
            <<"d", Strs([j \in DOMAIN c.items |-> c.items[j].d])>>,
            <<"i", Nums([j \in DOMAIN c.items |-> c.items[j].i])>>,
            <<"p", Pairs(c.p)>> >>)

\* The tuple form: null for no path change and for no parent.
TupleTree(c) ==
    JObj(<< <<"doc", JStr(c.doc)>>,
            <<"i", JArr([j \in DOMAIN c.items |->
                           JArr(<<JNum(c.items[j].t), JStr(c.items[j].n),
                                  IF PathDelta(c.items, j) = "" THEN JNull
                                  ELSE JStr(PathDelta(c.items, j)),
                                  JStr(c.items[j].d),
                                  IF c.items[j].i = 0 THEN JNull ELSE JNum(c.items[j].i),
                                  JNull>>)])>>,
            <<"p", Pairs(c.p)>> >>)

\* The legacy literal: E for the empty string, N for null, references for
\* the strings of the table.
EquivRefs == <<"demo", "Foo">>

LegacyText(s) ==
    IF s = "" THEN "E"
    ELSE IF \E k \in DOMAIN EquivRefs : EquivRefs[k] = s
         THEN "R[" \o ToString((CHOOSE k \in DOMAIN EquivRefs : EquivRefs[k] = s) - 1) \o "]"
         ELSE Quote(s)

LegacyLiteral(c) ==
    "{\"doc\":" \o LegacyText(c.doc) \o ",\"i\":["
    \o Join([j \in DOMAIN c.items |->
               "[" \o ToString(c.items[j].t) \o "," \o LegacyText(c.items[j].n) \o ","
               \o LegacyText(PathDelta(c.items, j)) \o "," \o LegacyText(c.items[j].d) \o ","
               \o (IF c.items[j].i = 0 THEN "N" ELSE ToString(c.items[j].i)) \o ",N]"], ",")
    \o "],\"p\":["
    \o Join([j \in DOMAIN c.p |->
               "[" \o ToString(c.p[j][1]) \o "," \o LegacyText(c.p[j][2]) \o "]"], ",")
    \o "]}"

Epochs == {"V1", "V2", "V3"}

\* The document of the package "demo" with content c in the form of an epoch.
Encode(epoch, c) ==
    CASE epoch = "V3" -> RenderIndex(JObj(<< <<"demo", ColumnTree(c)>> >>), V3TrailerWindow)
      [] epoch = "V2" -> RenderIndex(JObj(<< <<"demo", TupleTree(c)>> >>), V2Trailer)
      [] epoch = "V1" -> LegacyDocument(RefLine(EquivRefs),
                                        "searchIndex[\"demo\"]=" \o LegacyLiteral(c) \o ";")

EquivInputs ==
    {[epoch |-> epoch, content |-> c, index |-> Encode(epoch, c)] :
        epoch \in Epochs, c \in EquivContents(MaxEquivItems)}

InitEquiv ==
    /\ index \in {input.index : input \in EquivInputs}
    /\ pc = "detect"
    /\ version = "None"
    /\ content = NoTree
    /\ raw = <<>>
    /\ data = <<>>
    /\ result = Pending
    /\ NoSearch

SpecEquiv == InitEquiv /\ [][Next]_vars

(***************************************************************************)
(* Documents of several packages                                           *)
(***************************************************************************)

MaxPackages == 2

PackageNames == {"a", "b", "c"}

\* Package contents: a struct with a method, an item at the empty path, the
\* same before an item in a module, no item.
PackageItems ==
    {<<[t |-> 3, n |-> "Foo", path |-> "demo", d |-> "", i |-> 0],
       [t |-> 11, n |-> "new", path |-> "demo", d |-> "makes one", i |-> 1]>>,
     <<[t |-> 14, n |-> "top", path |-> "", d |-> "", i |-> 0]>>,
     <<[t |-> 14, n |-> "top", path |-> "", d |-> "", i |-> 0],
       [t |-> 5, n |-> "run", path |-> "demo::sub", d |-> "it's", i |-> 0]>>,
     <<>>}

NamedPackages ==
    {<<name, [doc |-> "about", items |-> items, p |-> EquivParents]>> :
        name \in PackageNames, items \in PackageItems}

\* Sequences of packages with different names.
PackageSeqs(mp) ==
    {s \in SeqsUpTo(NamedPackages, mp) :
        s # <<>> /\ \A j, k \in DOMAIN s : s[j][1] = s[k][1] => j = k}

\* The document of some packages in the form of an epoch.
EncodeAll(epoch, pkgs) ==
    CASE epoch = "V3" ->
           RenderIndex(JObj([j \in DOMAIN pkgs |-> <<pkgs[j][1], ColumnTree(pkgs[j][2])>>]),
                       V3TrailerWindow)
      [] epoch = "V2" ->
           RenderIndex(JObj([j \in DOMAIN pkgs |-> <<pkgs[j][1], TupleTree(pkgs[j][2])>>]),
                       V2Trailer)
      [] epoch = "V1" ->
           LegacyDocument(RefLine(EquivRefs),
                          Join([j \in DOMAIN pkgs |->
                                  "searchIndex[\"" \o pkgs[j][1] \o "\"]="
                                  \o LegacyLiteral(pkgs[j][2]) \o ";"], "\n"))

PackageInputs ==
    {[epoch |-> epoch, pkgs |-> pkgs, index |-> EncodeAll(epoch, pkgs)] :
        epoch \in Epochs, pkgs \in PackageSeqs(MaxPackages)}

InitPackages ==
    /\ index \in {input.index : input \in PackageInputs}
    /\ pc = "detect"
    /\ version = "None"
    /\ content = NoTree
    /\ raw = <<>>
    /\ data = <<>>
    /\ result = Pending
    /\ NoSearch

SpecPackages == InitPackages /\ [][Next]_vars

(***************************************************************************)
(* Packages of epoch 3 whose columns have lengths of their own             *)
(***************************************************************************)

MaxColumn == 2

ColumnKinds == <<3, 5, 11, 0>>
ColumnNames == <<"Foo", "it's", "a\\b", "new">>
ColumnDescs == <<"a \"b\" c", "", " two  spaces ", "x">>
ColumnParents == <<0, 1, 0, 1>>

\* A sparse entry of q.
PathPair(pos, path) == JArr(<<JNum(pos), JStr(path)>>)

\* Column q: dense, sparse with positions beyond the items and with one
\* position twice, and both forms in one sequence.
PathColumns ==
    {JArr(<<>>),
     Strs(<<"demo">>),
     Strs(<<"", "demo::sub">>),
     JArr(<<PathPair(5, "far")>>),
     JArr(<<PathPair(1, "late"), PathPair(0, "demo")>>),
     JArr(<<PathPair(0, "a"), PathPair(0, "b")>>),
     JArr(<<JStr("x"), PathPair(0, "y")>>),
     JArr(<<PathPair(1, "p"), JStr("s")>>),
     JArr(<<PathPair(0, "p"), JStr(""), JStr("third")>>),
     JArr(<<JStr(""), PathPair(7, "far"), JStr(""), JStr("fourth")>>),
     JArr(<<PathPair(1, "a"), JStr("s"), PathPair(9, "far"), JStr(""),
            PathPair(0, "b")>>)}

ColumnCrates(mc) ==
    {JObj(<< <<"doc", JStr("about")>>,
             <<"t", Nums(SubSeq(ColumnKinds, 1, lt))>>,
             <<"n", Strs(SubSeq(ColumnNames, 1, ln))>>,
             <<"q", q>>,
             <<"d", Strs(SubSeq(ColumnDescs, 1, ld))>>,
             <<"i", Nums(SubSeq(ColumnParents, 1, li))>>,
             <<"p", Pairs(<< <<3, "Bar">> >>)>> >>) :
        lt \in 0..mc, ln \in 0..mc, ld \in 0..mc, li \in 0..mc, q \in PathColumns}

ColumnDocuments ==
    {RenderIndex(JObj(<< <<"demo", c>> >>), V3TrailerWindow) : c \in ColumnCrates(MaxColumn)}

InitColumns ==
    /\ index \in ColumnDocuments
    /\ pc = "detect"
    /\ version = "None"
    /\ content = NoTree
    /\ raw = <<>>
    /\ data = <<>>
    /\ result = Pending
    /\ NoSearch

SpecColumns == InitColumns /\ [][NextAssembly]_vars

(***************************************************************************)
(* Documents put together from a start, a body, a trailer and what follows *)
(* the trailer                                                             *)
(***************************************************************************)

DetectStarts == {V1Prologue, "", " " \o V1Prologue, "// index\n"}

\* Bodies: the lines of each epoch, text that is no index, and text that
\* holds the trailers in its middle.
DetectBodies ==
    {"\n",
     "\nvar searchIndex = JSON.parse('{\\\n"
        \o Join(CrateLines(JObj(<< <<"demo", ColumnTree([doc |-> "", items |-> <<>>, p |-> <<>>])>> >>)), "")
        \o "}');\n",
     "\nvar searchIndex = JSON.parse('{\\\n"
        \o Join(CrateLines(JObj(<< <<"demo", TupleTree([doc |-> "", items |-> <<>>, p |-> <<>>])>> >>)), "")
        \o "}');\n",
     "\n" \o RefLine(EquivRefs) \o "\nsearchIndex[\"demo\"]="
        \o LegacyLiteral([doc |-> "", items |-> <<>>, p |-> <<>>]) \o ";\n",
     "\n{\"a\":1}\n",
     "\nx" \o V2Trailer \o " y " \o V3TrailerWindow \o "\n" \o V3TrailerExports \o " z\n"}

DetectTrailers == {V2Trailer, V3TrailerWindow, V3TrailerExports, "initSearch(searchIndex);"}

DetectTails == {"", "\n", " ", "\r\n", "\t\n "}

DetectInputs ==
    {[start |-> start, trailer |-> trailer, tail |-> tail,
      index |-> start \o body \o trailer \o tail] :
        start \in DetectStarts, body \in DetectBodies, trailer \in DetectTrailers,
        tail \in DetectTails}

InitDetect ==
    /\ index \in {input.index : input \in DetectInputs}
    /\ pc = "detect"
    /\ version = "None"
    /\ content = NoTree
    /\ raw = <<>>
    /\ data = <<>>
    /\ result = Pending
    /\ NoSearch

SpecDetect == InitDetect /\ [][Next]_vars

(***************************************************************************)
(* Properties                                                              *)
(***************************************************************************)

Max(S) == CHOOSE x \in S : \A y \in S : y <= x

\* The packages of the buffered index: the pairs <<name, tree>>.
Packages ==
    IF content.k = "obj" THEN {content.o[j] : j \in 1..Len(content.o)} ELSE {}

HasMember(c, name) == c.k = "obj" /\ \E j \in 1..Len(c.o) : c.o[j][1] = name

Field(c, name) == c.o[CHOOSE j \in 1..Len(c.o) : c.o[j][1] = name][2]

\* The raw records are built: deserialization is over and gave no error.
Decoded ==
    \/ pc \in {"transform", "generate_mapping"}
    \/ pc = "done" /\ result # Err("Json")

\* The code point of a printable ASCII character.
CodePoint(c) == CHOOSE n \in 32..126 : CharOf(n) = c

\* The type codes a t column writes: the numbers of the array form, the
\* bytes less 'A' of the packed form.
HasTypeCodes(c) ==
    /\ HasMember(c, "t")
    /\ \/ Field(c, "t").k = "str"
       \/ /\ Field(c, "t").k = "arr"
          /\ \A j \in 1..Len(Field(c, "t").a) : Field(c, "t").a[j].k = "num"

TypeCodes(t) ==
    IF t.k = "str" THEN [j \in 1..Len(t.s) |-> CodePoint(Ch(t.s, j)) - 65]
    ELSE [j \in 1..Len(t.a) |-> t.a[j].n]

TSliceTrees == {JObj(<< <<"demo", c>> >>) : c \in TSlice(MaxCodes)}

\* The marker m is nowhere in the document.
Absent(m) == find(index, m) = 0

\* The marker m is the start of the document.
AtStart(m) == find(index, m) = 1

\* The marker m is the end of the document.
AtEnd(m) == find(index, m) > 0 /\ find(index, m) + Len(m) = Len(index) + 1

\* Nothing but whitespace follows the marker m.
AtEndBeforeWhitespace(m) ==
    /\ find(index, m) > 0
    /\ \A j \in (find(index, m) + Len(m))..Len(index) : Ch(index, j) \in Whitespace

\* C1: a document that carries one of the envelope markers in its place (the
\* epoch-1 prologue as its start, the epoch-2 trailing call or the
\* browser-global epoch-3 trailing call as its end, the module-export epoch-3
\* trailing call as its end before whitespace) and none of the other markers
\* is detected as that epoch; a document with none of the markers anywhere
\* ends load with UnsupportedIndexVersion and without any decoded data, also
\* when the document is valid JSON.
C1_EpochDetection ==
    pc # "detect" =>
        /\ (/\ AtStart(V1Prologue) /\ Absent(V2Trailer)
            /\ Absent(V3TrailerWindow) /\ Absent(V3TrailerExports)) => version = "V1"
        /\ (/\ AtEnd(V2Trailer) /\ Absent(V1Prologue)
            /\ Absent(V3TrailerWindow) /\ Absent(V3TrailerExports)) => version = "V2"
        /\ (/\ AtEnd(V3TrailerWindow) /\ Absent(V1Prologue)
            /\ Absent(V2Trailer) /\ Absent(V3TrailerExports)) => version = "V3"
        /\ (/\ AtEndBeforeWhitespace(V3TrailerExports) /\ Absent(V1Prologue)
            /\ Absent(V2Trailer) /\ Absent(V3TrailerWindow)) => version = "V3"
        /\ (/\ Absent(V1Prologue) /\ Absent(V2Trailer)
            /\ Absent(V3TrailerWindow) /\ Absent(V3TrailerExports))
           => /\ version = "None"
              /\ pc = "done"
              /\ result = Err("UnsupportedIndexVersion")
              /\ raw = <<>> /\ data = <<>>

\* A document of valid JSON without any marker was refused.
C1_Witness ==
    /\ pc = "done"
    /\ result = Err("UnsupportedIndexVersion")
    /\ Absent(V1Prologue) /\ Absent(V2Trailer)
    /\ Absent(V3TrailerWindow) /\ Absent(V3TrailerExports)
    /\ from_str(index).ok
    /\ from_str(index).v.k = "obj"
    /\ from_str(index).v.o # <<>>

\* C2: in every package the path of the item at position pos is the value
\* of path_delta (raw q) at its greatest key <= pos, and "" when there is no
\* such key; path_delta = {0: "a"} with 3 items gives "a" to all three.
C2_CarryForward ==
    \A name \in DOMAIN data :
        /\ \A pos \in 0..(Len(data[name].items) - 1) :
              data[name].items[pos + 1].path =
                  IF {k \in DOMAIN raw[name].q : k <= pos} = {} THEN ""
                  ELSE raw[name].q[Max({k \in DOMAIN raw[name].q : k <= pos})]
        /\ (raw[name].q = (0 :> "a") /\ Len(raw[name].n) = 3)
           => /\ Len(data[name].items) = 3
              /\ \A j \in 1..3 : data[name].items[j].path = "a"

\* Three items resolved from path_delta = {0: "a"}.
C2_Witness ==
    \E name \in DOMAIN data :
        /\ raw[name].q = (0 :> "a")
        /\ Len(data[name].items) = 3
        /\ \A j \in 1..3 : data[name].items[j].path = "a"

\* C3: for every item, parent_idx is None exactly when its parent_ref (raw i)
\* is 0 and Some(k - 1) exactly when its parent_ref is k > 0.
C3_ParentSentinel ==
    \A name \in DOMAIN data :
        \A j \in 1..Len(data[name].items) :
            /\ (raw[name].i[j] = 0) <=> (data[name].items[j].parent_idx = None)
            /\ (raw[name].i[j] > 0)
               <=> (data[name].items[j].parent_idx = Some(raw[name].i[j] - 1))
            /\ data[name].items[j].parent_idx \in {None, Some(raw[name].i[j] - 1)}

\* An item with parent_ref 2 resolved to Some(1), next to one with parent_ref 0.
C3_Witness ==
    \E name \in DOMAIN data :
        \E j, m \in 1..Len(data[name].items) :
            /\ raw[name].i[j] = 2 /\ data[name].items[j].parent_idx = Some(1)
            /\ raw[name].i[m] = 0 /\ data[name].items[m].parent_idx = None

\* Some item of a decoded package has a parent_ref k > 0 with
\* k - 1 >= len(parent_table).
ParentOutOfBounds ==
    \E name \in DOMAIN raw :
        \E j \in 1..Len(raw[name].i) :
            raw[name].i[j] > 0 /\ raw[name].i[j] - 1 >= Len(raw[name].p)

\* C4: load never panics, and for a decoded package with an item whose
\* parent_ref is out of the bounds of the parent table it returns an error.
C4_DecodeErrorNeverPanic ==
    pc = "done" =>
        /\ result # Panic
        /\ ParentOutOfBounds => (~result.ok /\ result # Panic)

\* C5: a type code decodes to a kind if and only if it is in 0..=25, and then
\* to the kind with that discriminant; a code outside of it, in the array
\* form or as a byte of the packed form, ends decoding with an error.
C5_TypeCodes ==
    pc # "deserialize" =>
        \A m \in Packages :
            HasTypeCodes(m[2]) =>
                /\ (\E j \in DOMAIN TypeCodes(Field(m[2], "t")) :
                        TypeCodes(Field(m[2], "t"))[j] \notin 0..25)
                   => (pc = "done" /\ result = Err("Json") /\ raw = <<>>)
                /\ Decoded =>
                       raw[m[1]].t = [j \in DOMAIN TypeCodes(Field(m[2], "t")) |->
                                         ItemType[TypeCodes(Field(m[2], "t"))[j] + 1]]
                /\ (/\ content \in TSliceTrees
                    /\ \A j \in DOMAIN TypeCodes(Field(m[2], "t")) :
                          TypeCodes(Field(m[2], "t"))[j] \in 0..25)
                   => Decoded

\* The array form with the code 26 was refused.
C5_Witness ==
    /\ pc = "done"
    /\ result = Err("Json")
    /\ \E m \in Packages : HasMember(m[2], "t") /\ Field(m[2], "t") = Nums(<<26>>)

\* C6: a packed string of uppercase letters decodes to the kind list the
\* array of its codes decodes to, and the array of codes in 0..=25 to the
\* kind list of its packed string; a packed string with a byte that is no
\* ASCII uppercase letter fails to decode.
C6_PackedEqualsArray ==
    pc # "deserialize" =>
        \A m \in Packages :
            HasTypeCodes(m[2]) =>
                /\ (/\ Field(m[2], "t").k = "str"
                    /\ \A j \in 1..Len(Field(m[2], "t").s) :
                          CodePoint(Ch(Field(m[2], "t").s, j)) \in 65..90)
                   => /\ content \in TSliceTrees => Decoded
                      /\ t_deserialize(Nums(TypeCodes(Field(m[2], "t")))).ok
                      /\ Decoded =>
                            raw[m[1]].t = t_deserialize(Nums(TypeCodes(Field(m[2], "t")))).v
                /\ (/\ Field(m[2], "t").k = "arr"
                    /\ \A j \in 1..Len(Field(m[2], "t").a) : Field(m[2], "t").a[j].n \in 0..25)
                   => /\ content \in TSliceTrees => Decoded
                      /\ t_deserialize(JStr(PackedOf(TypeCodes(Field(m[2], "t"))))).ok
                      /\ Decoded =>
                            raw[m[1]].t =
                                t_deserialize(JStr(PackedOf(TypeCodes(Field(m[2], "t"))))).v
                /\ (/\ Field(m[2], "t").k = "str"
                    /\ \E j \in 1..Len(Field(m[2], "t").s) :
                          CodePoint(Ch(Field(m[2], "t").s, j)) \notin 65..90)
                   => (pc = "done" /\ result = Err("Json"))

\* The packed string "DZ" decoded to Struct, TraitAlias.
C6_Witness ==
    /\ pc = "transform"
    /\ \E m \in Packages :
          /\ HasMember(m[2], "t")
          /\ Field(m[2], "t") = JStr("DZ")
          /\ raw[m[1]].t = <<"Struct", "TraitAlias">>

\* The q column is in the dense form: an array of strings.
IsDense(c) ==
    /\ HasMember(c, "q")
    /\ Field(c, "q").k = "arr"
    /\ \A j \in 1..Len(Field(c, "q").a) : Field(c, "q").a[j].k = "str"

DenseOf(q) == [j \in 1..Len(q.a) |-> q.a[j].s]

PathsOf(items) == [j \in 1..Len(items) |-> items[j].path]

\* C7: a dense q array decodes to the path_delta map that the sparse array
\* of its non-empty positions decodes to, and the package resolves to the
\* same paths with either; ["a", "", "b"] gives what [(0,"a"), (2,"b")] gives.
C7_SparseDenseEquivalence ==
    pc # "deserialize" =>
        \A m \in Packages :
            IsDense(m[2]) =>
                /\ q_deserialize(SparseOf(DenseOf(Field(m[2], "q")))).ok
                /\ Decoded =>
                       raw[m[1]].q = q_deserialize(SparseOf(DenseOf(Field(m[2], "q")))).v
                /\ (Decoded /\ pc # "transform") =>
                       PathsOf(data[m[1]].items) =
                           PathsOf(transform_crate(
                               [raw[m[1]] EXCEPT
                                   !.q = q_deserialize(SparseOf(DenseOf(Field(m[2], "q")))).v]
                           ).items)
                /\ (Decoded /\ Field(m[2], "q") = Strs(<<"a", "", "b">>)) =>
                       raw[m[1]].q = q_deserialize(Pairs(<<<<0, "a">>, <<2, "b">>>>)).v

\* The dense column ["a", "", "b"] resolved to the paths a, a, b.
C7_Witness ==
    /\ pc = "done"
    /\ \E m \in Packages :
          /\ IsDense(m[2])
          /\ Field(m[2], "q") = Strs(<<"a", "", "b">>)
          /\ raw[m[1]].q = (0 :> "a" @@ 2 :> "b")
          /\ PathsOf(data[m[1]].items) = <<"a", "a", "b">>

\* The key of an item in the map of its package.
KeyOf(item, paths) ==
    IF item.parent_idx.some
    THEN item.path \o "::" \o paths[item.parent_idx.v + 1][2] \o "::" \o item.name
    ELSE item.path \o "::" \o item.name

\* The item at position j is the last of its package with its key.
LastOfKey(crate, j) ==
    \A m \in (j + 1)..Len(crate.items) :
        KeyOf(crate.items[m], crate.paths) # KeyOf(crate.items[j], crate.paths)

\* The URL of an item without parent.
PlainUrl(item) ==
    replace(item.path, "::", "/") \o "/" \o as_str(item.ty) \o "." \o item.name \o ".html"

\* The URL of an item with the parent (pkind, pname).
AnchorUrl(item, parent) ==
    replace(item.path, "::", "/") \o "/" \o as_str(parent[1]) \o "." \o parent[2]
    \o ".html#" \o as_str(item.ty) \o "." \o item.name

\* C8 as stated: whenever load returns a map, for every item without parent
\* the map of its package holds path::name -> path-with-slashes/kind.name.html.
C8_AsStated ==
    (pc = "done" /\ result.ok) =>
        \A name \in DOMAIN data :
            \A j \in 1..Len(data[name].items) :
                ~data[name].items[j].parent_idx.some =>
                    /\ KeyOf(data[name].items[j], data[name].paths) \in DOMAIN result.v[name]
                    /\ result.v[name][KeyOf(data[name].items[j], data[name].paths)] =
                           PlainUrl(data[name].items[j])

\* C8: whenever load returns a map, for every item without parent that no
\* later item of its package shares its fully-qualified path with, the map
\* of its package holds path::name -> path-with-slashes/kind.name.html;
\* Function foo at path bar gives "bar::foo" -> "bar/fn.foo.html".
C8_UrlWithoutParent ==
    (pc = "done" /\ result.ok) =>
        \A name \in DOMAIN data :
            \A j \in 1..Len(data[name].items) :
                (~data[name].items[j].parent_idx.some /\ LastOfKey(data[name], j)) =>
                    /\ data[name].items[j].path \o "::" \o data[name].items[j].name
                           \in DOMAIN result.v[name]
                    /\ result.v[name][data[name].items[j].path \o "::"
                                      \o data[name].items[j].name] =
                           PlainUrl(data[name].items[j])
                    /\ (/\ data[name].items[j].ty = "Function"
                        /\ data[name].items[j].name = "foo"
                        /\ data[name].items[j].path = "bar")
                       => result.v[name]["bar::foo"] = "bar/fn.foo.html"

\* Function foo at path bar without parent has its entry.
C8_Witness ==
    /\ pc = "done"
    /\ result.ok
    /\ \E name \in DOMAIN data :
          \E j \in 1..Len(data[name].items) :
              /\ data[name].items[j].ty = "Function"
              /\ data[name].items[j].name = "foo"
              /\ data[name].items[j].path = "bar"
              /\ ~data[name].items[j].parent_idx.some
              /\ result.v[name]["bar::foo"] = "bar/fn.foo.html"

\* C9 as stated: whenever load returns a map, for every item with a parent
\* (pkind, pname) the map of its package holds path::pname::name ->
\* path-with-slashes/pkind.pname.html#kind.name.
C9_AsStated ==
    (pc = "done" /\ result.ok) =>
        \A name \in DOMAIN data :
            \A j \in 1..Len(data[name].items) :
                data[name].items[j].parent_idx.some =>
                    /\ KeyOf(data[name].items[j], data[name].paths) \in DOMAIN result.v[name]
                    /\ result.v[name][KeyOf(data[name].items[j], data[name].paths)] =
                           AnchorUrl(data[name].items[j],
                                     data[name].paths[data[name].items[j].parent_idx.v + 1])

\* C9: whenever load returns a map, for every item with a parent (pkind,
\* pname) that no later item of its package shares its fully-qualified path
\* with, the map of its package holds path::pname::name ->
\* path-with-slashes/pkind.pname.html#kind.name; Method baz at path bar with
\* parent (Struct, Bar) gives "bar::Bar::baz" -> "bar/struct.Bar.html#method.baz".
C9_UrlWithParent ==
    (pc = "done" /\ result.ok) =>
        \A name \in DOMAIN data :
            \A j \in 1..Len(data[name].items) :
                (data[name].items[j].parent_idx.some /\ LastOfKey(data[name], j)) =>
                    /\ data[name].items[j].path \o "::"
                           \o data[name].paths[data[name].items[j].parent_idx.v + 1][2]
                           \o "::" \o data[name].items[j].name
                           \in DOMAIN result.v[name]
                    /\ result.v[name][data[name].items[j].path \o "::"
                           \o data[name].paths[data[name].items[j].parent_idx.v + 1][2]
                           \o "::" \o data[name].items[j].name] =
                           AnchorUrl(data[name].items[j],
                                     data[name].paths[data[name].items[j].parent_idx.v + 1])
                    /\ (/\ data[name].items[j].ty = "Method"
                        /\ data[name].items[j].name = "baz"
                        /\ data[name].items[j].path = "bar"
                        /\ data[name].paths[data[name].items[j].parent_idx.v + 1]
                               = <<"Struct", "Bar">>)
                       => result.v[name]["bar::Bar::baz"] = "bar/struct.Bar.html#method.baz"

\* Method baz at path bar with the parent (Struct, Bar).
C9_Witness ==
    /\ pc = "done"
    /\ result.ok
    /\ \E name \in DOMAIN data :
          \E j \in 1..Len(data[name].items) :
              /\ data[name].items[j].ty = "Method"
              /\ data[name].items[j].name = "baz"
              /\ data[name].items[j].path = "bar"
              /\ data[name].items[j].parent_idx = Some(0)
              /\ data[name].paths[1] = <<"Struct", "Bar">>
              /\ result.v[name]["bar::Bar::baz"] = "bar/struct.Bar.html#method.baz"

\* The epoch-3 documents of the one package "demo" with the single struct Foo
\* at path "demo" and no parent, in every encoding and with either trailer.
DemoDocuments ==
    {RenderIndex(JObj(<< <<"demo", c>> >>), trailer) :
        c \in DemoCrates, trailer \in {V3TrailerWindow, V3TrailerExports \o "\n"}}

\* C10: load of a minimal epoch-3 document of the one package "demo" with
\* the single parentless struct Foo at path "demo" ends with exactly
\* {"demo": {"demo::Foo": "demo/struct.Foo.html"}}.
C10_EndToEnd ==
    (index \in DemoDocuments /\ pc = "done") =>
        result = Ok([demo |-> ("demo::Foo" :> "demo/struct.Foo.html")])

\* Such a document went through load.
C10_Witness ==
    /\ index \in DemoDocuments
    /\ version = "V3"
    /\ pc = "done"
    /\ result.ok
    /\ DOMAIN result.v = {"demo"}
    /\ DOMAIN result.v["demo"] = {"demo::Foo"}

\* load_raw of the document is over (with a table or an error).
LegacyLoaded == pc \in {"transform", "generate_mapping", "done"} /\ version = "V1"

\* The package "demo" was decoded into a raw record.
DemoDecoded == LegacyLoaded /\ "demo" \in DOMAIN raw

\* The character the escape \u<h> stands for: the scalar value named by four
\* hex digits, the replacement character for anything else.
EscapeValue(h) ==
    CASE h = "0041" -> "A"
      [] h = "0061" -> "a"
      [] h = "007e" -> "~"
      [] h = "002F" -> "/"
      [] OTHER -> CharOf(65533)

\* C11: in a string literal of epoch 1 every \u escape decodes without
\* failing the document: four hex digits naming a scalar value give that
\* character (\u0041 gives "A"), an invalid escape (\uZZZZ, a surrogate)
\* gives the replacement character U+FFFD.
C11_UnicodeEscape ==
    \A h \in EscapeDigits :
        index = EscapeDocument(h) /\ LegacyLoaded =>
            DemoDecoded /\ raw["demo"].doc = "x" \o EscapeValue(h) \o "y"

\* The error of a package the parser accepted and the coercion into the
\* record shape refused.
InvalidIndexJson == Err("InvalidV1Index(InvalidIndexJson)")

\* C12: in the legacy grammar the token N decodes to null, E to the empty
\* string, T to "t", U to "u", and R[n] to the n-th (0-based) string of the
\* reference table of the "var R=" line, for every n below its length.
\* (null shows as the absent name and parent reference of an item, and as
\* a doc member the coercion refuses, exactly as the literal null.)
C12_ValueTokens ==
    LegacyLoaded =>
        \A len \in 0..MaxRefs :
            /\ index = TokenDocument(len, "E") => DemoDecoded /\ raw["demo"].doc = ""
            /\ index = TokenDocument(len, "T") => DemoDecoded /\ raw["demo"].doc = "t"
            /\ index = TokenDocument(len, "U") => DemoDecoded /\ raw["demo"].doc = "u"
            /\ index \in {TokenDocument(len, "N"), TokenDocument(len, "null")} =>
                   pc = "done" /\ result = InvalidIndexJson
            /\ index = ItemDocument(len, "N", "N") =>
                   DemoDecoded /\ raw["demo"].n = <<"">> /\ raw["demo"].i = <<0>>
            /\ index = ItemDocument(len, "T", "N") =>
                   DemoDecoded /\ raw["demo"].n = <<"t">> /\ raw["demo"].i = <<0>>
            /\ index = ItemDocument(len, "U", "E") => pc = "done" /\ result = InvalidIndexJson
            /\ \A n \in 0..(len - 1) :
                   /\ index = TokenDocument(len, RefToken(n)) =>
                          DemoDecoded /\ raw["demo"].doc = "r" \o ToString(n)
                   /\ index = ItemDocument(len, RefToken(n), "0") =>
                          DemoDecoded /\ raw["demo"].n = <<"r" \o ToString(n)>>

\* A back-reference to the last string of the longest table was resolved.
C12_Witness ==
    /\ MaxRefs > 1
    /\ index = TokenDocument(MaxRefs, RefToken(MaxRefs - 1))
    /\ DemoDecoded
    /\ raw["demo"].doc = "r" \o ToString(MaxRefs - 1)
    /\ pc = "done"
    /\ result.ok

\* C13: a back-reference R[n] with n >= the length of the reference table
\* makes decoding return an error (no default string, no panic); a document
\* of epoch 1 without a "var R=...;" line fails with MissingReference.
C13_UnresolvedReference ==
    LegacyLoaded =>
        /\ \A len \in 0..MaxRefs : \A n \in len..MaxRefs :
               index \in {TokenDocument(len, RefToken(n))}
                         \cup {ItemDocument(len, RefToken(n), par) : par \in ParentTokens} =>
                   /\ pc = "done"
                   /\ raw = <<>>
                   /\ result = Err("InvalidV1Index(InvalidIndexJavaScript)")
                   /\ result # Panic
        /\ \A line \in NoTableLines : \A doc \in {"E", "R[0]"} :
               index = TableDocument(line, doc) =>
                   pc = "done" /\ result = Err("InvalidV1Index(MissingReference)")

\* The reference after the last entry of the longest table was refused.
C13_Witness ==
    /\ index = TokenDocument(MaxRefs, RefToken(MaxRefs))
    /\ pc = "done"
    /\ result = Err("InvalidV1Index(InvalidIndexJavaScript)")

\* C14: the legacy grammar tolerates an optional trailing comma: an array
\* [v1,...,vk,] or object {k1:v1,...,kk:vk,} with one comma after the last
\* element parses to the same value as the form without it, and whitespace
\* (space, tab, CR) between any two tokens does not change the parsed value.
C14_TrailingCommaAndWhitespace ==
    \A rows \in FormRows : \A sp \in FormSpaces :
        \A trailing \in {"none", "row", "array", "object"} :
            index = FormDocument(rows, sp, trailing) /\ LegacyLoaded =>
                /\ DemoDecoded
                /\ raw = v1_load_raw(FormDocument(rows, "", "none")).v

\* C15: when a document of epoch 1 holds several packages and the value of
\* one of them is malformed beyond recovery, decoding fails only for that
\* package: the results of the sibling packages of the same document remain
\* available to the caller.
C15_SiblingPackages ==
    \A a \in GoodValues \cup MalformedValues : \A b \in GoodValues \cup MalformedValues :
        index = SiblingDocument(a, b) /\ LegacyLoaded =>
            /\ a \in GoodValues => "a" \in DOMAIN raw
            /\ b \in GoodValues => "b" \in DOMAIN raw
            /\ pc = "done" /\ (a \in GoodValues \/ b \in GoodValues) => result.ok

\* The crate name the search was started with: the text of the query
\* before its first "::".
QueryCrate ==
    CHOOSE c \in Segments \cup CrateSegments \cup {"special"} :
        query = c \/ starts_with(query, c \o "::")

\* transform_index was called and index::load had returned the mappings.
Transformed == found # Pending /\ result.ok

\* C16: transform_index returns an Index whose name is the crate name given
\* to start_search, whose std flag is true exactly when that name is one of
\* alloc, core, proc_macro, std, test, and whose mapping is exactly the map
\* of the package with that name; when the decoded document has no package
\* with that name it returns CrateDataMissing.
C16_TransformIndex ==
    Transformed =>
        IF QueryCrate \in DOMAIN result.v
        THEN /\ found.ok
             /\ found.v.name = QueryCrate
             /\ found.v.std = (QueryCrate \in {"alloc", "core", "proc_macro", "std", "test"})
             /\ found.v.mapping = result.v[QueryCrate]
        ELSE found = Err("CrateDataMissing")

\* The Index of a crate of the standard library was returned from an index
\* of several packages.
C16_Witness ==
    /\ Transformed
    /\ found.ok
    /\ found.v.std
    /\ found.v.name = "proc_macro"
    /\ Cardinality(DOMAIN result.v) > 1
    /\ found.v.mapping = ("proc_macro::vec" :> "proc_macro/mod.vec.html"
                          @@ "proc_macro::vec::Vec" :> "proc_macro/vec/struct.Vec.html")

\* find_link was called on the Index.
Linked == pc = "end" /\ found.ok

\* The address a link of the Index starts with.
LinkBase ==
    IF found.v.std THEN "https://doc.rust-lang.org/nightly/"
    ELSE "https://docs.rs/" \o found.v.name \o "/"
         \o (IF found.v.version = Latest THEN "latest" ELSE found.v.version.v) \o "/"

\* C17: find_link returns None exactly when the path names an item
\* (contains "::") that is not a key of the mapping; for a crate-only path
\* it returns a link whose tail is the crate name; every returned link is
\* "https://doc.rust-lang.org/nightly/" + tail when the index is std and
\* "https://docs.rs/{name}/{version}/" + tail otherwise.
C17_FindLink ==
    Linked =>
        /\ link = None <=> find(query, "::") # 0 /\ query \notin DOMAIN found.v.mapping
        /\ find(query, "::") = 0 => link = Some(LinkBase \o query)
        /\ find(query, "::") # 0 /\ query \in DOMAIN found.v.mapping =>
               link = Some(LinkBase \o found.v.mapping[query])

\* The link of an item of a crate on docs.rs with a fixed version.
C17_Witness ==
    /\ Linked
    /\ query = "demo::vec::Vec"
    /\ link = Some("https://docs.rs/demo/1.0.2/demo/vec/struct.Vec.html")

\* The segments of the queries that are identifiers: non-keyword
\* identifiers ("_" alone is none) and raw identifiers r#x with x an
\* identifier or keyword other than crate, self, super, Self.
Identifiers ==
    {"anyhow", "Result", "__", "_a", "a_b", "a1", "selfish", "r#unsafe", "r#a", "r#_a",
     "alloc", "core", "proc_macro", "std", "test", "demo", "other", "Foo", "vec", "Vec",
     "special", "a", "b"}

\* from_str has returned and nothing else has happened.
JustParsed == pc = "start_search" \/ (pc = "end" /\ search = None)

\* C18: parsing a SimplePath succeeds if and only if the input is non-empty
\* and every segment obtained by splitting on "::" is an identifier; the
\* empty input fails with TooShort, every other rejected input with
\* InvalidIdentifier, and on success crate_name is the text before the
\* first "::".
C18_SimplePathParse ==
    JustParsed =>
        \A segs \in QuerySegments(MaxSegments) :
            query = Join(segs, "::") =>
                IF query = "" THEN simple_path = Err("TooShort")
                ELSE IF \A j \in DOMAIN segs : segs[j] \in Identifiers
                THEN /\ simple_path.ok
                     /\ simple_path.v[1] = query
                     /\ crate_name(simple_path.v) = segs[1]
                ELSE simple_path = Err("InvalidIdentifier")

\* A path of three segments was parsed.
C18_Witness ==
    /\ JustParsed
    /\ query = "std::vec::Vec"
    /\ simple_path = Ok(<<"std::vec::Vec", 3>>)
    /\ crate_name(simple_path.v) = "std"

\* The item tuples of the package "demo" of the buffered epoch-2 index.
TupleRows ==
    IF /\ version = "V2"
       /\ HasMember(content, "demo")
       /\ HasMember(Field(content, "demo"), "i")
       /\ Field(Field(content, "demo"), "i").k = "arr"
    THEN Field(Field(content, "demo"), "i").a
    ELSE <<>>

\* The index holds the package of well-formed item tuples, and the coercion
\* into the record shape is over.
EntryPackage ==
    /\ pc \in {"transform", "generate_mapping", "done"}
    /\ TupleRows # <<>>
    /\ \A j \in DOMAIN TupleRows : TupleRows[j] \in Entries \cup {FirstEntry}
    /\ Field(content, "demo") = EntryTree(TupleRows)

StringOrEmpty(v) == IF v = JNull THEN "" ELSE v.s

NumberOrZero(v) == IF v = JNull THEN 0 ELSE v.n

\* Name, description and parent reference of every item are those of its
\* tuple, "" and 0 for null, and the item of a null parent reference has no
\* parent.
TupleDefaults ==
    /\ "demo" \in DOMAIN raw
    /\ Len(raw["demo"].n) = Len(TupleRows)
    /\ \A j \in DOMAIN TupleRows :
          /\ raw["demo"].n[j] = StringOrEmpty(TupleRows[j].a[2])
          /\ raw["demo"].d[j] = StringOrEmpty(TupleRows[j].a[4])
          /\ raw["demo"].i[j] = NumberOrZero(TupleRows[j].a[5])
          /\ TupleRows[j].a[5] = JNull /\ "demo" \in DOMAIN data =>
                 data["demo"].items[j].parent_idx = None

\* C19 as stated: in an epoch-2 tuple a null name or description decodes to
\* the empty string and a null parent-ref to 0, so that the item has
\* parent_index = None; the search-type element is ignored whatever its
\* content.
C19_AsStated == EntryPackage => TupleDefaults

\* C19, amended: the same, with the search-type element ignored when it is
\* null or an array (whatever the array holds); a search-type element of
\* any other kind is a decode error.
C19_TupleDefaults ==
    EntryPackage =>
        IF \A j \in DOMAIN TupleRows : TupleRows[j].a[6].k \in {"null", "arr"}
        THEN TupleDefaults
        ELSE pc = "done" /\ result = Err("Json") /\ raw = <<>>

\* A tuple with null name, description and parent reference and a search
\* type that holds values was decoded, after a tuple with all of them.
C19_Witness ==
    /\ EntryPackage
    /\ pc = "done"
    /\ result.ok
    /\ Len(TupleRows) = 2
    /\ TupleRows[2] = Entry(JNull, JStr("demo"), JNull, JNull,
                            JArr(<<JNum(1), JStr("x"), JNull>>))
    /\ raw["demo"].n = <<"first", "">>
    /\ raw["demo"].i = <<0, 0>>
    /\ data["demo"].items[2].parent_idx = None

\* The kinds of value the positions t, n, q, d, i, f of an item tuple take.
PositionKinds ==
    <<{"num"}, {"null", "str"}, {"null", "str"}, {"null", "str"}, {"null", "num"},
      {"null", "arr"}>>

ItemTuples(tree) == IF HasMember(tree, "i") THEN Elements(Field(tree, "i")) ELSE <<>>

\* An item tuple of the package has not six elements.
WrongArity(tree) ==
    \E j \in DOMAIN ItemTuples(tree) :
        ItemTuples(tree)[j].k = "arr" /\ Len(ItemTuples(tree)[j].a) # Len(PositionKinds)

\* A member of the package, an item tuple or a position of a tuple holds a
\* value of the wrong kind.
WrongKind(tree) ==
    \/ HasMember(tree, "doc") /\ Field(tree, "doc").k # "str"
    \/ HasMember(tree, "i") /\ Field(tree, "i").k # "arr"
    \/ HasMember(tree, "p") /\ Field(tree, "p").k # "arr"
    \/ \E j \in DOMAIN ItemTuples(tree) :
          \/ ItemTuples(tree)[j].k # "arr"
          \/ /\ ItemTuples(tree)[j].k = "arr"
             /\ Len(ItemTuples(tree)[j].a) = Len(PositionKinds)
             /\ \E pos \in DOMAIN PositionKinds :
                   ItemTuples(tree)[j].a[pos].k \notin PositionKinds[pos]

\* The package is an object without one of the keys doc, i, p.
MissingKey(tree) ==
    /\ tree.k = "obj"
    /\ \E name \in {"doc", "i", "p"} : ~HasMember(tree, name)

\* The decode error of an epoch.
DecodeError(epoch) == IF epoch = "V2" THEN Err("Json") ELSE InvalidIndexJson

\* C20: a legacy or epoch-2 package with an item tuple of another arity than
\* six, with a value of the wrong kind in a position, or without one of the
\* keys doc, i, p is never coerced into the record shape: no record is
\* built from it, with defaults or otherwise, and load ends with the decode
\* error of the epoch.
C20_CoercionFailure ==
    \A input \in ShapeInputs :
        /\ index = input.index
        /\ WrongArity(input.tree) \/ WrongKind(input.tree) \/ MissingKey(input.tree)
        => /\ raw = <<>>
           /\ data = <<>>
           /\ pc \notin {"transform", "generate_mapping"}
           /\ pc = "done" => result = DecodeError(input.epoch)

\* The legacy package whose second item tuple has five elements was refused.
C20_Witness ==
    /\ index = ShapeDocument("V1", EntryTree(<<FirstEntry, ShortEntry>>))
    /\ WrongArity(EntryTree(<<FirstEntry, ShortEntry>>))
    /\ pc = "done"
    /\ result = InvalidIndexJson
    /\ raw = <<>>

\* A line that starts with a double quote and ends with a backslash.
KeptLine(l) == Ch(l, 1) = "\"" /\ Ch(l, Len(l)) = "\\"

KeptLines(text) == SelectSeq(lines(text), LAMBDA l : KeptLine(l))

\* The kept lines of ls, each without its last character, one after the
\* other.
RECURSIVE Concatenated(_)
Concatenated(ls) ==
    IF ls = <<>> THEN ""
    ELSE SubSeq(Head(ls), 1, Len(Head(ls)) - 1) \o Concatenated(Tail(ls))

\* The text between braces, then backslash-backslash-quote for
\* backslash-quote, backslash-apostrophe for apostrophe, double backslash
\* for backslash.
AssembledText(text) ==
    replace(replace(replace("{" \o Concatenated(KeptLines(text)) \o "}",
                            "\\\\\"", "\\\""), "\\'", "'"), "\\\\", "\\")

\* The name a kept line starts with: the text between its first two quotes.
LineName(l) == SubSeq(l, 2, find(Drop(l, 1), "\""))

LineNames(text) == {LineName(KeptLines(text)[j]) : j \in DOMAIN KeptLines(text)}

\* C21: what load_raw of epoch 3 parses is "{", the lines that start with a
\* double quote and end with a backslash, in document order and without
\* that backslash, and "}", after the three replacements in their order: the
\* buffered index is the JSON value of that text, load ends with the JSON
\* error when that text is no JSON, and the packages of a decoded index are
\* those the kept lines name, one for each line when the names differ.
C21_Assembly ==
    version = "V3" /\ pc \notin {"detect", "load_raw"} =>
        \A text \in {from_str(AssembledText(index))} :
            /\ IF text.ok THEN content = text.v
               ELSE pc = "done" /\ result = Err("Json") /\ content = NoTree
            /\ pc = "done" /\ result.ok =>
                  /\ DOMAIN raw = LineNames(index)
                  /\ Cardinality(LineNames(index)) = Len(KeptLines(index)) =>
                        Cardinality(DOMAIN result.v) = Len(KeptLines(index))

\* A document of two kept lines, the second with four backslashes before
\* the closing quote of its doc string, was decoded: the doc string is one
\* backslash.
C21_Witness ==
    /\ index = AssemblyDocument(<<"\"a\":" \o LinePackage("") \o ",\\",
                                  "\"e\":" \o LinePackage("\\\\\\\\") \o "\\">>)
    /\ pc = "done"
    /\ result.ok
    /\ DOMAIN raw = {"a", "e"}
    /\ raw["e"].doc = "\\"
    /\ Len(KeptLines(index)) = 2

\* The raw records of a document, by the decoder of its epoch.
RawOf(text) ==
    CASE detect(text) = "V1" -> v1_load_raw(text)
      [] detect(text) = "V2" -> v2_load_raw(text)
      [] detect(text) = "V3" -> load_raw(text)

\* The resolved item the content gives for one of its items.
ResolvedItem(item) ==
    [ty |-> ItemType[item.t + 1], name |-> item.n, path |-> item.path, desc |-> item.d,
     parent_idx |-> IF item.i = 0 THEN None ELSE Some(item.i - 1)]

\* C22: one package content (kinds, names, full module paths, descriptions,
\* parent references, parent table) written in the legacy literal form, in
\* the tuple form and in the columnar form gives the same resolved items,
\* those of the content, and the same map of paths to URLs, whichever form
\* is loaded.
C22_EpochEquivalence ==
    \A input \in EquivInputs :
        index = input.index /\ pc = "done" =>
            /\ result.ok
            /\ version = input.epoch
            /\ DOMAIN data = {"demo"}
            /\ data["demo"].items =
                  [j \in DOMAIN input.content.items |-> ResolvedItem(input.content.items[j])]
            /\ \A epoch \in Epochs :
                  /\ transform(RawOf(Encode(epoch, input.content)).v) = data
                  /\ load(Encode(epoch, input.content)) = result

\* The legacy form of a package with a struct and its method in a module
\* was loaded.
C22_Witness ==
    /\ version = "V1"
    /\ pc = "done"
    /\ result.ok
    /\ Len(data["demo"].items) = 2
    /\ data["demo"].items[2].name = "new"
    /\ data["demo"].items[2].parent_idx = Some(0)
    /\ result.v["demo"]["demo::Foo::new"] = "demo/struct.Foo.html#method.new"
    /\ \E c \in EquivContents(MaxEquivItems) :
          /\ index = Encode("V1", c)
          /\ load(Encode("V2", c)) = result
          /\ load(Encode("V3", c)) = result

\* The packages of a sequence in the opposite order.
Reversed(s) == [j \in DOMAIN s |-> s[Len(s) + 1 - j]]

\* C23: in a document that decodes, the map of paths to URLs of a package
\* is the map the document of that package alone gives, whatever the other
\* packages of the document are and in whatever order they come.
C23_PackageIndependence ==
    \A input \in PackageInputs :
        index = input.index /\ pc = "done" /\ result.ok =>
            /\ DOMAIN result.v = {input.pkgs[j][1] : j \in DOMAIN input.pkgs}
            /\ \A j \in DOMAIN input.pkgs :
                  result.v[input.pkgs[j][1]] =
                      load(EncodeAll(input.epoch, <<input.pkgs[j]>>)).v[input.pkgs[j][1]]
            /\ result = load(EncodeAll(input.epoch, Reversed(input.pkgs)))

\* A package whose first item has no path was decoded after a package with
\* paths: its item is at the empty path.
C23_Witness ==
    /\ pc = "done"
    /\ result.ok
    /\ DOMAIN data = {"a", "b"}
    /\ Len(data["a"].items) = 2
    /\ Len(data["b"].items) = 1
    /\ data["a"].items[2].path = "demo"
    /\ data["b"].items[1].path = ""
    /\ result.v["b"] = ("::top" :> "/macro.top.html")
    /\ \E input \in PackageInputs :
          index = input.index /\ input.pkgs[1][1] = "a" /\ input.pkgs[2][1] = "b"

\* The least of the lengths of the columns t, n, d and i of a raw record.
ShortestColumn(rd) ==
    CHOOSE len \in {Len(rd.t), Len(rd.n), Len(rd.d), Len(rd.i)} :
        \A other \in {Len(rd.t), Len(rd.n), Len(rd.d), Len(rd.i)} : len <= other

\* C24: transform takes columns of different lengths without an error: a
\* package has as many resolved items as its shortest column among t, n, d
\* and i has elements, what the longer columns hold beyond that is dropped,
\* and the item at position pos is built from t[pos], n[pos], d[pos] and
\* i[pos].
C24_ColumnLengths ==
    /\ pc \in {"generate_mapping", "done"} /\ Decoded =>
          /\ DOMAIN data = DOMAIN raw
          /\ \A name \in DOMAIN raw :
                /\ Len(data[name].items) = ShortestColumn(raw[name])
                /\ \A j \in 1..ShortestColumn(raw[name]) :
                      /\ data[name].items[j].ty = raw[name].t[j]
                      /\ data[name].items[j].name = raw[name].n[j]
                      /\ data[name].items[j].desc = raw[name].d[j]
                      /\ data[name].items[j].parent_idx = parent_idx(raw[name].i[j])
    /\ pc = "done" /\ raw # <<>> => result.ok /\ DOMAIN result.v = DOMAIN raw

\* A package with two kinds, one name, two descriptions and two parent
\* references was resolved to one item.
C24_Witness ==
    /\ pc = "done"
    /\ result.ok
    /\ "demo" \in DOMAIN raw
    /\ Len(raw["demo"].t) = 2
    /\ Len(raw["demo"].n) = 1
    /\ Len(raw["demo"].d) = 2
    /\ Len(raw["demo"].i) = 2
    /\ Len(data["demo"].items) = 1
    /\ data["demo"].items[1].name = "Foo"

\* C25: the legacy decoder counts the depth of arrays and objects and
\* rejects a value nested deeper than its limit: whatever the limit is
\* below the deepest nesting of the documents, every value nested deeper
\* than it ends load with an error of the legacy decoder.
C25_DepthLimit ==
    \E limit \in 1..(MaxDepth - 1) :
        \A depth \in (limit + 1)..MaxDepth :
            /\ index \in {NestedDocument(NestedArrays(depth)),
                          NestedDocument(NestedObjects(1, depth))}
            /\ pc = "done"
            => ~result.ok /\ raw = <<>>

\* The strings of a column of the package "demo" of the buffered index.
ColumnStrings(name) ==
    [j \in DOMAIN Field(Field(content, "demo"), name).a |->
        Field(Field(content, "demo"), name).a[j].s]

\* C26: transform changes nothing but path and parent index: the resolved
\* items come in the order of the raw positions, the item at position pos
\* has the name and the description of that position character for
\* character (those the document holds), and the doc string and the parent
\* table of the package are those of the raw record.
C26_TransformFrame ==
    pc \in {"generate_mapping", "done"} /\ Decoded =>
        \A name \in DOMAIN raw :
            /\ data[name].doc = raw[name].doc
            /\ data[name].paths = raw[name].p
            /\ \A j \in DOMAIN data[name].items :
                  /\ data[name].items[j].name = raw[name].n[j]
                  /\ data[name].items[j].desc = raw[name].d[j]
                  /\ name = "demo" /\ HasMember(content, "demo") =>
                        /\ data[name].items[j].name = ColumnStrings("n")[j]
                        /\ data[name].items[j].desc = ColumnStrings("d")[j]
                        /\ data[name].doc = Field(Field(content, "demo"), "doc").s

\* Two items with an apostrophe in a name and quotes in a description were
\* resolved in a package with a doc string and a parent.
C26_Witness ==
    /\ pc = "done"
    /\ result.ok
    /\ "demo" \in DOMAIN data
    /\ data["demo"].doc = "about"
    /\ data["demo"].paths = << <<"Struct", "Bar">> >>
    /\ Len(data["demo"].items) = 2
    /\ data["demo"].items[1].name = "Foo"
    /\ data["demo"].items[1].desc = "a \"b\" c"
    /\ data["demo"].items[2].name = "it's"
    /\ data["demo"].items[2].desc = ""

\* The epoch of a document by its start, its trailer and what follows the
\* trailer.
EpochOf(start, trailer, tail) ==
    IF start = V1Prologue THEN "V1"
    ELSE IF trailer = V2Trailer /\ tail = "" THEN "V2"
    ELSE IF trailer = V3TrailerWindow /\ tail = "" THEN "V3"
    ELSE IF trailer = V3TrailerExports /\ \A j \in 1..Len(tail) : Ch(tail, j) \in Whitespace
    THEN "V3"
    ELSE "None"

\* C27: a text that starts with the epoch-1 prologue is of epoch 1 whatever
\* its end; any other text is of epoch 2 or 3 by the epoch-2 trailer or the
\* browser-global trailer only when the trailer is the very end of the text
\* (no whitespace or line end after it), and of epoch 3 by the module-export
\* trailer also when whitespace follows it; the text between start and
\* trailer has no part in it.
C27_DetectionExactness ==
    \A input \in DetectInputs :
        index = input.index /\ pc # "detect" =>
            /\ version = EpochOf(input.start, input.trailer, input.tail)
            /\ version = "None" => pc = "done" /\ result = Err("UnsupportedIndexVersion")

\* A text with the epoch-2 trailer and a line end after it was refused.
C27_Witness ==
    /\ pc = "done"
    /\ result = Err("UnsupportedIndexVersion")
    /\ ends_with(index, V2Trailer \o "\n")
    /\ ~starts_with(index, V1Prologue)


\* The URL of an item of a package, with or without parent.
UrlOf(item, paths) ==
    IF item.parent_idx.some
    THEN AnchorUrl(item, paths[item.parent_idx.v + 1])
    ELSE PlainUrl(item)

\* The fully-qualified paths of the items of a package.
KeysOf(crate) == { KeyOf(crate.items[j], crate.paths) : j \in 1..Len(crate.items) }

\* C28: whenever load returns a map, the keys of the map of a package are
\* the fully-qualified paths of its resolved items, one entry for each path
\* and so at most as many entries as items, and the URL stored under a path
\* is that of the item at the latest position with this path.
C28_OneEntryPerPath ==
    (pc = "done" /\ result.ok) =>
        \A name \in DOMAIN data :
            /\ DOMAIN result.v[name] = KeysOf(data[name])
            /\ Cardinality(DOMAIN result.v[name]) <= Len(data[name].items)
            /\ \A j \in 1..Len(data[name].items) :
                  LastOfKey(data[name], j) =>
                      result.v[name][KeyOf(data[name].items[j], data[name].paths)] =
                          UrlOf(data[name].items[j], data[name].paths)

\* Two items of a package with one fully-qualified path and two URLs: the
\* map holds one entry for both, with the URL of the later item.
C28_Witness ==
    /\ pc = "done"
    /\ result.ok
    /\ \E name \in DOMAIN data :
          \E j \in 1..Len(data[name].items) :
              \E m \in (j + 1)..Len(data[name].items) :
                  /\ KeyOf(data[name].items[m], data[name].paths) =
                         KeyOf(data[name].items[j], data[name].paths)
                  /\ UrlOf(data[name].items[m], data[name].paths) #
                         UrlOf(data[name].items[j], data[name].paths)
                  /\ LastOfKey(data[name], m)
                  /\ result.v[name][KeyOf(data[name].items[j], data[name].paths)] =
                         UrlOf(data[name].items[m], data[name].paths)
                  /\ Cardinality(DOMAIN result.v[name]) < Len(data[name].items)


\* The elements of column q of the package "demo" of the buffered index.
PathElements == Field(Field(content, "demo"), "q").a

\* The position element k of a q column names: its own for a tuple, its
\* index in the sequence for a string.
PositionOf(qa, k) == IF qa[k].k = "arr" THEN qa[k].a[1].n ELSE k - 1

\* The path element k of a q column holds.
PathOf(qa, k) == IF qa[k].k = "arr" THEN qa[k].a[2].s ELSE qa[k].s

\* Element k of a q column makes an entry: all but the empty strings.
MakesEntry(qa, k) == ~(qa[k].k = "str" /\ qa[k].s = "")

\* The entries of a q column for the positions below len: the last element
\* naming a position gives its path.
EntriesBelow(qa, len) ==
    [pos \in { PositionOf(qa, k) : k \in { m \in 1..Len(qa) :
                                             MakesEntry(qa, m) /\ PositionOf(qa, m) < len } } |->
        PathOf(qa, Max({ k \in 1..Len(qa) : MakesEntry(qa, k) /\ PositionOf(qa, k) = pos }))]

\* The path of the item at pos by the entries: that of the nearest entry at
\* or before pos, "" when there is none.
PathAt(entries, pos) ==
    IF \E k \in DOMAIN entries : k <= pos
    THEN entries[Max({ k \in DOMAIN entries : k <= pos })]
    ELSE ""

\* C29: decoding q does not fail on positions. The document of a package
\* whose q holds strings and (position, path) tuples is decoded whatever the
\* positions are; the entries are those of the elements at their positions, a
\* string at its index in the sequence, a tuple at the position it names,
\* the later of two elements with one position giving the path; the resolved
\* items take their paths from the entries below the number of items alone,
\* and load returns a map.
C29_PathPositions ==
    /\ pc \in {"transform", "generate_mapping", "done"} =>
          /\ result # Err("Json")
          /\ "demo" \in DOMAIN raw
          /\ raw["demo"].q = EntriesBelow(PathElements, Max({ PositionOf(PathElements, k) :
                                                               k \in 1..Len(PathElements) }
                                                             \cup {0}) + 1)
    /\ pc \in {"generate_mapping", "done"} =>
          \A j \in 1..Len(data["demo"].items) :
              data["demo"].items[j].path =
                  PathAt(EntriesBelow(PathElements, Len(data["demo"].items)), j - 1)
    /\ pc = "done" => result.ok

\* q = [[1,"a"], "s", [9,"far"], "", [0,"b"]] for two items: the string at
\* index 1 replaced the tuple for position 1, the tuple for position 9 is
\* in the raw record and in no item, and load returned a map.
C29_Witness ==
    /\ pc = "done"
    /\ result.ok
    /\ PathElements = <<PathPair(1, "a"), JStr("s"), PathPair(9, "far"), JStr(""),
                        PathPair(0, "b")>>
    /\ raw["demo"].q = (0 :> "b" @@ 1 :> "s" @@ 9 :> "far")
    /\ PathsOf(data["demo"].items) = <<"b", "s">>


\* The path element of an item tuple is null or the empty string.
NoPath(row) == row.a[3] = JNull \/ row.a[3] = JStr("")

\* The item tuples of a package are well-formed: members of the kinds the
\* coercion takes.
WellFormedRows(tree) ==
    /\ tree \in EntryTrees
    /\ \A j \in DOMAIN ItemTuples(tree) : ItemTuples(tree)[j].a[6].k \in {"null", "arr"}

\* C30: in the tuple forms of epoch 1 and epoch 2 a tuple whose path element
\* is null or the empty string gives no path_delta entry: the entries are
\* those of the other tuples, at their positions, and the resolved path of
\* such a tuple is the resolved path of the tuple before it, the empty
\* string for the first tuple.
C30_TuplePathDelta ==
    \A input \in ShapeInputs :
        (/\ index = input.index
         /\ WellFormedRows(input.tree)
         /\ pc \in {"transform", "generate_mapping", "done"}) =>
            /\ "demo" \in DOMAIN raw
            /\ DOMAIN raw["demo"].q =
                   { j - 1 : j \in { m \in DOMAIN ItemTuples(input.tree) :
                                       ~NoPath(ItemTuples(input.tree)[m]) } }
            /\ \A pos \in DOMAIN raw["demo"].q :
                   raw["demo"].q[pos] = ItemTuples(input.tree)[pos + 1].a[3].s
            /\ pc \in {"generate_mapping", "done"} =>
                   /\ Len(data["demo"].items) = Len(ItemTuples(input.tree))
                   /\ \A j \in DOMAIN ItemTuples(input.tree) :
                          data["demo"].items[j].path =
                              IF ~NoPath(ItemTuples(input.tree)[j])
                              THEN ItemTuples(input.tree)[j].a[3].s
                              ELSE IF j = 1 THEN ""
                              ELSE data["demo"].items[j - 1].path

\* An epoch-1 tuple with the empty string for its path, after a tuple with
\* the path "demo", was resolved to the path "demo".
C30_Witness ==
    /\ pc = "done"
    /\ result.ok
    /\ version = "V1"
    /\ index = ShapeDocument("V1", EntryTree(<<FirstEntry,
                                               Entry(JStr("Foo"), JStr(""), JStr("text"),
                                                     JNum(1), JNull)>>))
    /\ DOMAIN raw["demo"].q = {0}
    /\ PathsOf(data["demo"].items) = <<"demo", "demo">>

====
